---------------------------- MODULE Spec2Model ----------------------------
(***************************************************************************)
(* The Brotherhood community server: identity resolution (authMiddleware), *)
(* the relational content store (users, posts, comments, likes, chat,      *)
(* settings), the admin-password / role authorization rules, and the       *)
(* WebSocket connection registry with its broadcast.                       *)
(*                                                                         *)
(* Sources: src/server/routes.ts, src/server/firebase-admin.ts,            *)
(* src/unnamed/part_014 (server/storage.ts), src/unnamed/part_000          *)
(* (shared/schema.ts).                                                     *)
(*                                                                         *)
(* Every HTTP handler is one action (the toggle-like storage call is also  *)
(* available split at its await, for the concurrency properties).  The     *)
(* variable `last` records the request handled by the latest step and the  *)
(* response it got, so that properties can speak about responses.          *)
(***************************************************************************)
EXTENDS Integers, Sequences, FiniteSets, Bags, TLC

VARIABLES
    adminApp,       \* firebase-admin.ts:5   adminApp !== null
    nodeEnv,        \* process.env.NODE_ENV
    users,          \* table users: id -> row
    settings,       \* table app_settings: key -> value
    posts,          \* table posts: id -> row
    nextPostId,     \* identity column of posts
    comments,       \* table comments: id -> row
    nextCommentId,  \* identity column of comments
    likes,          \* table likes: <<postId, userId>> -> number of rows (rows exist: >= 1)
    pending,        \* bag of suspended calls (handlers at an await) and armed timers
    toggleParity,   \* the (post,user) pairs toggled an odd number of times since the post exists
    chatMessages,   \* table chat_messages: id -> row
    nextChatId,     \* identity column of chat_messages
    directMessages, \* table direct_messages: id -> row
    clients,        \* routes.ts:159  Map<WebSocket,string>, in insertion order
    readyState,     \* per socket: ws readyState
    inbox,          \* per socket: the frames written to it, in order
    pendingAuth,    \* sockets whose auth message awaits verifyIdToken
    webhookLog,     \* POSTs made to the Discord webhook sink
    last            \* the request handled by the latest step, with its response

cfgVars   == <<adminApp, nodeEnv>>
userVars  == <<users, settings>>
postVars  == <<posts, nextPostId, comments, nextCommentId>>
likeVars  == <<likes, pending, toggleParity>>
chatVars  == <<chatMessages, nextChatId, directMessages>>
wsVars    == <<clients, readyState, inbox, pendingAuth>>
vars == <<adminApp, nodeEnv, users, settings, posts, nextPostId, comments,
          nextCommentId, likes, pending, toggleParity,
          chatMessages, nextChatId, directMessages, clients, readyState, inbox,
          pendingAuth, webhookLog, last>>

(***************************************************************************)
(* Bounds of the model.                                                    *)
(***************************************************************************)
MaxPosts == 2
MaxPostsNarrow == 1
MaxComments == 2
MaxInflight == 2
MaxChat == 1
MaxConns == 2
MaxDms == 1
MaxRetained == 2

(***************************************************************************)
(* Identities and credentials.                                             *)
(***************************************************************************)
UserIds == {"a", "b", "c"}

\* The X-User-Id header: "" stands for an absent header.
XUserIds == {""} \cup UserIds

\* Bearer tokens a caller may present.  "" is the token of "Bearer ".
Tokens == {"jwt-a", "jwt-b", "jwt-c", "expired", "test-token-dev", ""}

NoAuthHeader == [scheme |-> "none", token |-> ""]

Bearer(t) == [scheme |-> "Bearer", token |-> t]

\* An Authorization header: absent, "Bearer <token>", or another scheme.
AuthHeaders ==
    {NoAuthHeader, [scheme |-> "Basic", token |-> "jwt-a"]} \cup {Bearer(t) : t \in Tokens}

\* The identity provider: the tokens it accepts, with their subject.
TokenSubject == [t \in {"jwt-a", "jwt-b", "jwt-c"} |->
                    CASE t = "jwt-a" -> "a" [] t = "jwt-b" -> "b" [] OTHER -> "c"]

\* getAuth(adminApp).verifyIdToken: resolves with the decoded token or rejects.
FirebaseVerify(idToken) ==
    IF idToken \in DOMAIN TokenSubject
    THEN [rejected |-> FALSE, uid |-> TokenSubject[idToken]]
    ELSE [rejected |-> TRUE, uid |-> ""]

\* An isFirebaseAdminInitialized that always reports no verifier.
isFirebaseAdminInitialized_Never == FALSE

isFirebaseAdminInitialized == adminApp

\* verifyIdToken: null without adminApp, null when the provider rejects; it
\* catches every error itself and never throws.
verifyIdToken(idToken) ==
    IF ~adminApp
    THEN [threw |-> FALSE, decoded |-> FALSE, uid |-> ""]
    ELSE LET r == FirebaseVerify(idToken)
         IN IF r.rejected
            THEN [threw |-> FALSE, decoded |-> FALSE, uid |-> ""]
            ELSE [threw |-> FALSE, decoded |-> TRUE, uid |-> r.uid]

Unauthorized == [next |-> FALSE, status |-> 401, userId |-> ""]

Authenticated(uid) == [next |-> TRUE, status |-> 200, userId |-> uid]

\* authMiddleware: next() with req.userId set, or a 401 response.
authMiddleware(authHeader, userId) ==
    IF authHeader = Bearer("test-token-dev") /\ userId # ""
    THEN Authenticated(userId)
    ELSE IF authHeader.scheme # "Bearer"
    THEN IF userId # "" /\ ~isFirebaseAdminInitialized
         THEN Authenticated(userId)
         ELSE Unauthorized
    ELSE LET decodedToken == verifyIdToken(authHeader.token)
         IN IF decodedToken.threw
            THEN IF userId # "" /\ nodeEnv = "development"
                 THEN Authenticated(userId)
                 ELSE Unauthorized
            ELSE IF decodedToken.decoded
            THEN Authenticated(decodedToken.uid)
            ELSE IF ~isFirebaseAdminInitialized /\ userId # ""
            THEN Authenticated(userId)
            ELSE Unauthorized

(***************************************************************************)
(* The state after construction: empty tables, no socket.                  *)
(***************************************************************************)
Conns == 1 .. MaxConns

EmptyFn == [x \in {} |-> x]

NoRequest == [op |-> "none"]

\* Every table but users is empty; no socket, no request yet.
EmptyTables ==
    /\ settings = EmptyFn
    /\ posts = EmptyFn
    /\ nextPostId = 1
    /\ comments = EmptyFn
    /\ nextCommentId = 1
    /\ likes = EmptyFn
    /\ pending = EmptyFn
    /\ toggleParity = {}
    /\ chatMessages = EmptyFn
    /\ nextChatId = 1
    /\ directMessages = EmptyFn
    /\ clients = <<>>
    /\ readyState = EmptyFn
    /\ inbox = EmptyFn
    /\ pendingAuth = {}
    /\ webhookLog = {}
    /\ last = NoRequest

EmptyStore == users = EmptyFn /\ EmptyTables

(***************************************************************************)
(* SpecAuth: authMiddleware alone, under every configuration.              *)
(***************************************************************************)
InitAuth ==
    /\ adminApp \in BOOLEAN
    /\ nodeEnv \in {"development", "production"}
    /\ EmptyStore

\* A request to a protected route, up to the middleware's decision.
AuthRequest(authHeader, userId) ==
    LET r == authMiddleware(authHeader, userId)
    IN /\ last' = [op |-> "auth", authHeader |-> authHeader, xUserId |-> userId,
                   next |-> r.next, status |-> r.status, userId |-> r.userId]
       /\ UNCHANGED <<cfgVars, userVars, postVars, likeVars, chatVars, wsVars, webhookLog>>

NextAuth == \E h \in AuthHeaders, x \in XUserIds : AuthRequest(h, x)

SpecAuth == InitAuth /\ [][NextAuth]_vars

\* C1: with a token verifier configured, the middleware attaches actor U only
\* when the request carries a bearer token that the verifier accepts with
\* subject U; the X-User-Id header never determines the actor.
C1_VerifiedActorOnly ==
    (last.op = "auth" /\ adminApp /\ last.next) =>
        /\ last.authHeader.scheme = "Bearer"
        /\ ~FirebaseVerify(last.authHeader.token).rejected
        /\ FirebaseVerify(last.authHeader.token).uid = last.userId

(***************************************************************************)
(* Strings of request bodies.  "" stands for a missing or empty field.     *)
(***************************************************************************)
OwnerEmails == {"thebrotherhoodofalaska@outlook.com", "2thumbsupgames@gmail.com"}

\* E-mail addresses a caller may send in a request body.
Emails == {"2ThumbsUpGames@Gmail.com", "member@example.com"}

\* String.prototype.toLowerCase on the strings above.
ToLowerCase(s) ==
    CASE s = "2ThumbsUpGames@Gmail.com" -> "2thumbsupgames@gmail.com"
      [] s = "Member@Example.com" -> "member@example.com"
      [] OTHER -> s

Contents == {"", "  ", " hello "}

\* A trim that strips nothing.
Trim_Nothing(s) == s

\* String.prototype.trim on the strings above.
Trim(s) ==
    CASE s = "  " -> ""
      [] s = " hello " -> "hello"
      [] OTHER -> s

MinPasswordLength == 4

\* bcrypt.hash(password, 10): a salted digest that only `password` matches.
bcryptHash(password) == <<"bcrypt", password>>

\* bcrypt.compare(password, hash)
bcryptCompare(password, hash) == hash = <<"bcrypt", password>>

WebhookUrls == {"", "https://discord.test/hook"}

Roles == {"Supreme Leader", "The Council of Snow", "The Great Hall of the North", "admin"}

(***************************************************************************)
(* DatabaseStorage, as functions of the tables.                            *)
(***************************************************************************)
\* The owner check that also lets the top rank through.
userIsOwner_OrSupremeLeader(tbl, id) ==
    id \in DOMAIN tbl /\ (tbl[id].isOwner \/ tbl[id].role = "Supreme Leader")

\* The owner check that also lets an admin-access holder through.
userIsOwner_OrAdminAccess(tbl, id) ==
    id \in DOMAIN tbl /\ (tbl[id].isOwner \/ tbl[id].hasAdminAccess)

\* user?.isOwner for user = await storage.getUser(id)
userIsOwner(tbl, id) == id \in DOMAIN tbl /\ tbl[id].isOwner

\* user?.hasAdminAccess
userHasAdminAccess(tbl, id) == id \in DOMAIN tbl /\ tbl[id].hasAdminAccess

\* user?.role, "" for undefined or null
userRole(tbl, id) == IF id \in DOMAIN tbl THEN tbl[id].role ELSE ""

\* createUser: the insert lower-cases the e-mail; it throws on a taken id
\* (primary key) or a taken e-mail (unique).  Columns not given take their default.
createUser(tbl, id, email, displayName, isOwner) ==
    LET stored == ToLowerCase(email)
    IN IF id \in DOMAIN tbl \/ (\E o \in DOMAIN tbl : tbl[o].email = stored)
       THEN [threw |-> TRUE, users |-> tbl]
       ELSE [threw |-> FALSE,
             users |-> [u \in DOMAIN tbl \cup {id} |->
                           IF u = id
                           THEN [email |-> stored, displayName |-> displayName,
                                 isOwner |-> isOwner, hasAdminAccess |-> FALSE,
                                 role |-> ""]
                           ELSE tbl[u]]]

\* An updateUser that puts hasAdminAccess back to its default unless it is given.
updateUser_ResetAccess(tbl, id, data) ==
    IF id \in DOMAIN tbl
    THEN [tbl EXCEPT ![id] = [f \in DOMAIN tbl[id] |->
                                 IF f \in DOMAIN data THEN data[f]
                                 ELSE IF f = "hasAdminAccess" THEN FALSE
                                 ELSE tbl[id][f]]]
    ELSE tbl

\* updateUser: sets the given columns of the row with that id, if there is one.
updateUser(tbl, id, data) ==
    IF id \in DOMAIN tbl
    THEN [tbl EXCEPT ![id] = [f \in DOMAIN tbl[id] |->
                                 IF f \in DOMAIN data THEN data[f] ELSE tbl[id][f]]]
    ELSE tbl

\* getSetting: the value, "" for undefined
getSetting(tbl, key) == IF key \in DOMAIN tbl THEN tbl[key] ELSE ""

\* getSetting for a webhook key: the stored value is a string
getWebhook(tbl, key) == IF key \in DOMAIN tbl THEN tbl[key] ELSE ""

\* setSetting: insert ... onConflictDoUpdate
setSetting(tbl, key, value) ==
    [k \in DOMAIN tbl \cup {key} |-> IF k = key THEN value ELSE tbl[k]]

\* createPost: the insert throws when authorId references no user.
createPost(tbl, userTbl, id, row) ==
    IF row.authorId \in DOMAIN userTbl
    THEN [threw |-> FALSE, posts |-> [p \in DOMAIN tbl \cup {id} |-> IF p = id THEN row ELSE tbl[p]]]
    ELSE [threw |-> TRUE, posts |-> tbl]

(***************************************************************************)
(* Requests.                                                               *)
(***************************************************************************)
\* What a request carries for the middleware.
Credentials ==
    {[authHeader |-> Bearer("jwt-a"), xUserId |-> ""],
     [authHeader |-> Bearer("jwt-b"), xUserId |-> ""],
     [authHeader |-> Bearer("expired"), xUserId |-> "a"]}

Actor(cred) == authMiddleware(cred.authHeader, cred.xUserId)

\* POST /api/auth/sync.  The route has no authMiddleware.
AuthSync(id, email, displayName) ==
    LET isOwner == ToLowerCase(email) \in OwnerEmails
        created == createUser(users, id, email, displayName, isOwner)
        status == IF id = "" \/ email = "" \/ displayName = "" THEN 400
                  ELSE IF id \notin DOMAIN users /\ created.threw THEN 500
                  ELSE 200
    IN /\ users' = IF status # 200 THEN users
                   ELSE IF id \notin DOMAIN users THEN created.users
                   ELSE updateUser(users, id, [displayName |-> displayName, isOwner |-> isOwner])
       /\ last' = [op |-> "sync", id |-> id, email |-> email, status |-> status]
       /\ UNCHANGED <<cfgVars, settings, postVars, likeVars, chatVars, wsVars, webhookLog>>

\* The check with the optional chaining lost: an actor without a row passes.
hasAdminPrivilege_UnlessNoRow(tbl, userId) ==
    userId \notin DOMAIN tbl \/ tbl[userId].isOwner \/ tbl[userId].hasAdminAccess

\* if (!user?.isOwner && !user?.hasAdminAccess) return 403
hasAdminPrivilege(tbl, userId) == userIsOwner(tbl, userId) \/ userHasAdminAccess(tbl, userId)

\* POST /api/posts
CreatePost(cred, content, isAdminPost) ==
    LET auth == Actor(cred)
        userId == auth.userId
        row == [content |-> Trim(content), authorId |-> userId, isAdminPost |-> isAdminPost]
        created == createPost(posts, users, nextPostId, row)
        webhookKey == IF isAdminPost THEN "discord_announcements_webhook" ELSE "discord_feed_webhook"
        webhookUrl == getWebhook(settings, webhookKey)
        status == IF ~auth.next THEN 401
                  ELSE IF content = "" \/ Len(Trim(content)) = 0 THEN 400
                  ELSE IF isAdminPost /\ ~hasAdminPrivilege(users, userId) THEN 403
                  ELSE IF created.threw THEN 500
                  ELSE 200
    IN /\ posts' = IF status = 200 THEN created.posts ELSE posts
       /\ nextPostId' = IF status = 200 THEN nextPostId + 1 ELSE nextPostId
       /\ webhookLog' = IF status = 200 /\ webhookUrl # "" /\ userId \in DOMAIN users
                        THEN webhookLog \cup {[key |-> webhookKey, id |-> nextPostId]}
                        ELSE webhookLog
       /\ last' = [op |-> "createPost", authed |-> auth.next, actor |-> userId, content |-> content,
                   isAdminPost |-> isAdminPost, status |-> status]
       /\ UNCHANGED <<cfgVars, userVars, comments, nextCommentId, likeVars, chatVars, wsVars>>

\* POST /api/admin/set-password
SetPassword(cred, password) ==
    LET auth == Actor(cred)
        userId == auth.userId
        status == IF ~auth.next THEN 401
                  ELSE IF ~userIsOwner(users, userId) THEN 403
                  ELSE IF password = "" \/ Len(password) < MinPasswordLength THEN 400
                  ELSE 200
    IN /\ settings' = IF status = 200
                      THEN setSetting(settings, "admin_password", bcryptHash(password))
                      ELSE settings
       /\ last' = [op |-> "setPassword", actor |-> userId, password |-> password,
                   status |-> status]
       /\ UNCHANGED <<cfgVars, users, postVars, likeVars, chatVars, wsVars, webhookLog>>

\* POST /api/admin/unlock
Unlock(cred, password) ==
    LET auth == Actor(cred)
        userId == auth.userId
        storedPassword == getSetting(settings, "admin_password")
        status == IF ~auth.next THEN 401
                  ELSE IF password = "" THEN 400
                  ELSE IF "admin_password" \notin DOMAIN settings THEN 400
                  ELSE IF ~bcryptCompare(password, storedPassword) THEN 401
                  ELSE 200
    IN /\ users' = IF status = 200
                   THEN updateUser(users, userId, [hasAdminAccess |-> TRUE])
                   ELSE users
       /\ last' = [op |-> "unlock", authed |-> auth.next, actor |-> userId,
                   password |-> password, status |-> status]
       /\ UNCHANGED <<cfgVars, settings, postVars, likeVars, chatVars, wsVars, webhookLog>>

\* The webhook check that also lets an admin-access holder through.
mayConfigureWebhooks_OrAdminAccess(tbl, userId) ==
    \/ userIsOwner(tbl, userId)
    \/ userRole(tbl, userId) = "Supreme Leader"
    \/ userHasAdminAccess(tbl, userId)

\* if (!user?.isOwner && user?.role !== "Supreme Leader") return 403
mayConfigureWebhooks(tbl, userId) ==
    userIsOwner(tbl, userId) \/ userRole(tbl, userId) = "Supreme Leader"

\* A handler that writes the three settings whether their field is empty or not.
SetWebhooks_WritesAll(cred, feedWebhook, announcementsWebhook, chatWebhook) ==
    LET auth == Actor(cred)
        userId == auth.userId
        status == IF ~auth.next THEN 401
                  ELSE IF ~mayConfigureWebhooks(users, userId) THEN 403
                  ELSE 200
        s1 == setSetting(settings, "discord_feed_webhook", feedWebhook)
        s2 == setSetting(s1, "discord_announcements_webhook", announcementsWebhook)
        s3 == setSetting(s2, "discord_chat_webhook", chatWebhook)
    IN /\ settings' = IF status = 200 THEN s3 ELSE settings
       /\ last' = [op |-> "setWebhooks", actor |-> userId, status |-> status,
                   feedWebhook |-> feedWebhook,
                   announcementsWebhook |-> announcementsWebhook,
                   chatWebhook |-> chatWebhook]
       /\ UNCHANGED <<cfgVars, users, postVars, likeVars, chatVars, wsVars, webhookLog>>

\* POST /api/admin/webhooks
SetWebhooks(cred, feedWebhook, announcementsWebhook, chatWebhook) ==
    LET auth == Actor(cred)
        userId == auth.userId
        status == IF ~auth.next THEN 401
                  ELSE IF ~mayConfigureWebhooks(users, userId) THEN 403
                  ELSE 200
        s1 == IF feedWebhook # "" THEN setSetting(settings, "discord_feed_webhook", feedWebhook)
              ELSE settings
        s2 == IF announcementsWebhook # ""
              THEN setSetting(s1, "discord_announcements_webhook", announcementsWebhook)
              ELSE s1
        s3 == IF chatWebhook # "" THEN setSetting(s2, "discord_chat_webhook", chatWebhook)
              ELSE s2
    IN /\ settings' = IF status = 200 THEN s3 ELSE settings
       /\ last' = [op |-> "setWebhooks", actor |-> userId, status |-> status,
                   feedWebhook |-> feedWebhook,
                   announcementsWebhook |-> announcementsWebhook,
                   chatWebhook |-> chatWebhook]
       /\ UNCHANGED <<cfgVars, users, postVars, likeVars, chatVars, wsVars, webhookLog>>

(***************************************************************************)
(* Spec: identity sync, posts, admin password and webhook configuration,   *)
(* in a deployment with the token verifier configured.                     *)
(***************************************************************************)
Init ==
    /\ adminApp = TRUE
    /\ nodeEnv = "production"
    /\ EmptyStore

SyncIds == {"", "a", "b"}

\* Passwords the owner tries to set, and passwords tried at unlock.
SetPasswordInputs == {"", "abc", "brotherhood"}

UnlockInputs == {"", "wrong", "brotherhood"}

Next ==
    \/ \E id \in SyncIds, email \in Emails \cup {""}, displayName \in {"", "Name"} :
          AuthSync(id, email, displayName)
    \/ \E cred \in Credentials, content \in Contents, isAdminPost \in BOOLEAN :
          nextPostId <= MaxPostsNarrow /\ CreatePost(cred, content, isAdminPost)
    \/ \E cred \in Credentials, password \in SetPasswordInputs : SetPassword(cred, password)
    \/ \E cred \in Credentials, password \in UnlockInputs : Unlock(cred, password)
    \/ \E cred \in Credentials, feed \in WebhookUrls, ann \in WebhookUrls :
          SetWebhooks(cred, feed, ann, "")

Spec == Init /\ [][Next]_vars

\* C2: every stored user is an owner exactly when its stored e-mail, lower-cased,
\* is on the owner allow-list.
C2_IsOwnerMatchesEmail ==
    \A id \in DOMAIN users :
        users[id].isOwner = (ToLowerCase(users[id].email) \in OwnerEmails)


\* C3 as stated: an admin post requested by an actor with neither isOwner nor
\* hasAdminAccess (or with no stored row) is answered 403, persists no post and
\* sends no webhook; every admin post that is persisted has a privileged author.
C3_AdminPostRejected403 ==
    [][/\ (last'.op = "createPost" /\ last'.authed /\ last'.isAdminPost
             /\ ~(userIsOwner(users, last'.actor) \/ userHasAdminAccess(users, last'.actor)))
          => (last'.status = 403 /\ posts' = posts /\ webhookLog' = webhookLog)
       /\ \A p \in DOMAIN posts' \ DOMAIN posts :
             posts'[p].isAdminPost =>
                (userIsOwner(users, posts'[p].authorId)
                    \/ userHasAdminAccess(users, posts'[p].authorId))]_vars

\* C3 amended: such a request is rejected (403, or 400 when its content is
\* missing or blank, which the handler checks first), persists no post and sends
\* no webhook; every admin post that is persisted has a privileged author.
C3_AdminPostRejected ==
    [][/\ (last'.op = "createPost" /\ last'.authed /\ last'.isAdminPost
             /\ ~(userIsOwner(users, last'.actor) \/ userHasAdminAccess(users, last'.actor)))
          => /\ last'.status = (IF last'.content \in {"", "  "} THEN 400 ELSE 403)
             /\ posts' = posts
             /\ webhookLog' = webhookLog
       /\ \A p \in DOMAIN posts' \ DOMAIN posts :
             posts'[p].isAdminPost =>
                (userIsOwner(users, posts'[p].authorId)
                    \/ userHasAdminAccess(users, posts'[p].authorId))]_vars

\* An unprivileged stored user was refused an announcement (403) while the
\* announcements webhook is configured.
C3_Witness ==
    /\ last.op = "createPost" /\ last.isAdminPost /\ last.status = 403
    /\ last.actor \in DOMAIN users
    /\ "discord_announcements_webhook" \in DOMAIN settings

\* C4: unlock sets the actor's hasAdminAccess exactly when the supplied password
\* matches the stored admin password, after which the actor may create an admin
\* post; a wrong or empty password, or no stored password, is rejected and
\* leaves the users unchanged.
C4_UnlockIffPasswordMatches ==
    [][(last'.op = "unlock" /\ last'.authed) =>
          IF /\ last'.password # ""
             /\ "admin_password" \in DOMAIN settings
             /\ settings["admin_password"] = <<"bcrypt", last'.password>>
          THEN /\ last'.status = 200
               /\ last'.actor \in DOMAIN users'
               /\ users'[last'.actor].hasAdminAccess
          ELSE /\ last'.status \in {400, 401}
               /\ users' = users]_vars

(***************************************************************************)
(* Likes and comments: DatabaseStorage and the schema's constraints.       *)
(***************************************************************************)
\* select from likes where postId = .. and userId = ..: is there a row
selectLike_ByPostOnly(likesTbl, postId, userId) ==
    \E pair \in DOMAIN likesTbl : pair[1] = postId

selectLike(likesTbl, postId, userId) == <<postId, userId>> \in DOMAIN likesTbl

\* The insert without the table's primary key: a second row for the pair.
insertLike_NoPrimaryKey(likesTbl, postsTbl, usersTbl, postId, userId) ==
    IF postId \notin DOMAIN postsTbl \/ userId \notin DOMAIN usersTbl
    THEN [threw |-> TRUE, likes |-> likesTbl]
    ELSE [threw |-> FALSE,
          likes |-> [pair \in DOMAIN likesTbl \cup {<<postId, userId>>} |->
                        IF pair = <<postId, userId>>
                        THEN (IF pair \in DOMAIN likesTbl THEN likesTbl[pair] + 1 ELSE 1)
                        ELSE likesTbl[pair]]]

\* insert into likes: throws when postId or userId references no row (foreign
\* keys) or the pair already has a row (primary key (postId, userId)).
insertLike(likesTbl, postsTbl, usersTbl, postId, userId) ==
    IF postId \notin DOMAIN postsTbl \/ userId \notin DOMAIN usersTbl
    THEN [threw |-> TRUE, likes |-> likesTbl]
    ELSE IF <<postId, userId>> \in DOMAIN likesTbl
    THEN [threw |-> TRUE, likes |-> likesTbl]
    ELSE [threw |-> FALSE,
          likes |-> [pair \in DOMAIN likesTbl \cup {<<postId, userId>>} |->
                        IF pair = <<postId, userId>> THEN 1 ELSE likesTbl[pair]]]

\* The delete with the userId condition lost.
deleteLike_WholePost(likesTbl, postId, userId) ==
    [pair \in {q \in DOMAIN likesTbl : q[1] # postId} |-> likesTbl[pair]]

\* delete from likes where postId = .. and userId = ..
deleteLike(likesTbl, postId, userId) ==
    [pair \in DOMAIN likesTbl \ {<<postId, userId>>} |-> likesTbl[pair]]

\* toggleLike after its select returned `existing`: the delete or the insert,
\* and the value returned.
toggleLikeWrite(existing, likesTbl, postsTbl, usersTbl, postId, userId) ==
    IF existing
    THEN [threw |-> FALSE, isLiked |-> FALSE, likes |-> deleteLike(likesTbl, postId, userId)]
    ELSE LET ins == insertLike(likesTbl, postsTbl, usersTbl, postId, userId)
         IN [threw |-> ins.threw, isLiked |-> TRUE, likes |-> ins.likes]

\* The delete of the post row alone, as if the references did not cascade.
deletePost_NoCascade(postsTbl, commentsTbl, likesTbl, id) ==
    [posts |-> [p \in DOMAIN postsTbl \ {id} |-> postsTbl[p]],
     comments |-> commentsTbl,
     likes |-> likesTbl]

\* deletePost: comments.postId and likes.postId reference posts.id with
\* onDelete cascade, so the rows referencing the post go with it.
deletePost(postsTbl, commentsTbl, likesTbl, id) ==
    [posts |-> [p \in DOMAIN postsTbl \ {id} |-> postsTbl[p]],
     comments |-> [c \in {d \in DOMAIN commentsTbl : commentsTbl[d].postId # id} |-> commentsTbl[c]],
     likes |-> [pair \in {q \in DOMAIN likesTbl : q[1] # id} |-> likesTbl[pair]]]

\* createComment: throws when postId or authorId references no row.
createComment(commentsTbl, postsTbl, usersTbl, id, row) ==
    IF row.postId \in DOMAIN postsTbl /\ row.authorId \in DOMAIN usersTbl
    THEN [threw |-> FALSE,
          comments |-> [c \in DOMAIN commentsTbl \cup {id} |-> IF c = id THEN row ELSE commentsTbl[c]]]
    ELSE [threw |-> TRUE, comments |-> commentsTbl]

\* deleteComment
deleteComment(commentsTbl, id) == [c \in DOMAIN commentsTbl \ {id} |-> commentsTbl[c]]

RECURSIVE SumRows(_, _)
\* The number of rows of likesTbl among `pairs`.
SumRows(likesTbl, pairs) ==
    IF pairs = {} THEN 0
    ELSE LET pair == CHOOSE q \in pairs : TRUE
         IN likesTbl[pair] + SumRows(likesTbl, pairs \ {pair})

\* getPost / getPosts: the counts and the isLiked flag of one post for a reader.
getPost(postsTbl, commentsTbl, likesTbl, id, userId) ==
    LET postLikes == {pair \in DOMAIN likesTbl : pair[1] = id}
        postComments == {c \in DOMAIN commentsTbl : commentsTbl[c].postId = id}
    IN [found |-> id \in DOMAIN postsTbl,
        likesCount |-> SumRows(likesTbl, postLikes),
        commentsCount |-> Cardinality(postComments),
        isLiked |-> userId # "" /\ (\E pair \in postLikes : pair[2] = userId)]

(***************************************************************************)
(* Requests on posts, likes and comments.                                  *)
(***************************************************************************)
\* DELETE /api/posts/:id
DeletePost(cred, postId) ==
    LET auth == Actor(cred)
        userId == auth.userId
        status == IF ~auth.next THEN 401
                  ELSE IF postId \notin DOMAIN posts THEN 404
                  ELSE IF posts[postId].authorId # userId /\ ~userIsOwner(users, userId) THEN 403
                  ELSE 200
        after == deletePost(posts, comments, likes, postId)
    IN /\ posts' = IF status = 200 THEN after.posts ELSE posts
       /\ comments' = IF status = 200 THEN after.comments ELSE comments
       /\ likes' = IF status = 200 THEN after.likes ELSE likes
       /\ toggleParity' = IF status = 200 THEN {pair \in toggleParity : pair[1] # postId}
                          ELSE toggleParity
       /\ last' = [op |-> "deletePost", authed |-> auth.next, actor |-> userId,
                   postId |-> postId, status |-> status,
                   cascadedComments |-> Cardinality(DOMAIN comments \ DOMAIN after.comments),
                   cascadedLikes |-> Cardinality(DOMAIN likes \ DOMAIN after.likes)]
       /\ UNCHANGED <<cfgVars, userVars, nextPostId, nextCommentId, pending, chatVars,
                      wsVars, webhookLog>>

\* POST /api/posts/:id/like, with storage.toggleLike run to its end.
ToggleLike(cred, postId) ==
    LET auth == Actor(cred)
        userId == auth.userId
        existing == selectLike(likes, postId, userId)
        written == toggleLikeWrite(existing, likes, posts, users, postId, userId)
        status == IF ~auth.next THEN 401 ELSE IF written.threw THEN 500 ELSE 200
    IN /\ likes' = IF status = 200 THEN written.likes ELSE likes
       /\ toggleParity' = IF auth.next /\ postId \in DOMAIN posts
                          THEN (toggleParity \ {<<postId, userId>>})
                                  \cup ({<<postId, userId>>} \ toggleParity)
                          ELSE toggleParity
       /\ last' = [op |-> "toggleLike", authed |-> auth.next, actor |-> userId,
                   postId |-> postId, existing |-> existing, status |-> status,
                   isLiked |-> written.isLiked]
       /\ UNCHANGED <<cfgVars, userVars, postVars, pending, chatVars, wsVars, webhookLog>>

\* POST /api/posts/:id/comments
CreateComment(cred, postId, content) ==
    LET auth == Actor(cred)
        userId == auth.userId
        row == [content |-> Trim(content), postId |-> postId, authorId |-> userId]
        created == createComment(comments, posts, users, nextCommentId, row)
        status == IF ~auth.next THEN 401
                  ELSE IF content = "" \/ Len(Trim(content)) = 0 THEN 400
                  ELSE IF created.threw THEN 500
                  ELSE 200
    IN /\ comments' = IF status = 200 THEN created.comments ELSE comments
       /\ nextCommentId' = IF status = 200 THEN nextCommentId + 1 ELSE nextCommentId
       /\ last' = [op |-> "createComment", authed |-> auth.next, actor |-> userId,
                   postId |-> postId, content |-> content, status |-> status]
       /\ UNCHANGED <<cfgVars, userVars, posts, nextPostId, likeVars, chatVars, wsVars,
                      webhookLog>>

\* storage.deleteComment(id)
DeleteComment(id) ==
    /\ comments' = deleteComment(comments, id)
    /\ last' = [op |-> "deleteComment", id |-> id]
    /\ UNCHANGED <<cfgVars, userVars, posts, nextPostId, nextCommentId, likeVars, chatVars,
                   wsVars, webhookLog>>

(***************************************************************************)
(* SpecCascade: posts with their comments and likes, one request at a time,*)
(* among an owner a, a member b and an actor c who never synced.           *)
(***************************************************************************)
SeededUsers ==
    LET a == createUser(EmptyFn, "a", "2ThumbsUpGames@Gmail.com", "Name", TRUE).users
    IN createUser(a, "b", "member@example.com", "Name", FALSE).users

InitSeeded ==
    /\ adminApp = TRUE
    /\ nodeEnv = "production"
    /\ EmptyTables
    /\ users = SeededUsers

\* The requests' credentials: the tokens of a, b and c, and an expired token.
Callers ==
    {[authHeader |-> Bearer("jwt-a"), xUserId |-> ""],
     [authHeader |-> Bearer("jwt-b"), xUserId |-> ""],
     [authHeader |-> Bearer("jwt-c"), xUserId |-> ""],
     [authHeader |-> Bearer("expired"), xUserId |-> "a"]}

\* The callers with a stored user row.
Members == {cred \in Callers : Actor(cred).userId \in DOMAIN SeededUsers}

\* The member who writes the posts and the comments; a is the owner.
Writers == {cred \in Callers : Actor(cred).userId = "b"}

NextCascade ==
    \/ \E cred \in Writers :
          nextPostId <= MaxPosts /\ CreatePost(cred, " hello ", FALSE)
    \/ \E cred \in Callers, postId \in 1 .. MaxPosts : DeletePost(cred, postId)
    \/ \E cred \in Members, postId \in 1 .. MaxPosts : ToggleLike(cred, postId)
    \/ \E cred \in Writers, postId \in 1 .. MaxPosts :
          nextCommentId <= MaxComments /\ CreateComment(cred, postId, " hello ")
    \/ \E id \in 1 .. MaxComments : DeleteComment(id)

SpecCascade == InitSeeded /\ [][NextCascade]_vars

(***************************************************************************)
(* SpecToggle: like toggles made one after the other, by any caller.       *)
(***************************************************************************)
NextToggle ==
    \/ \E cred \in Members :
          nextPostId <= MaxPosts /\ CreatePost(cred, " hello ", FALSE)
    \/ \E cred \in Callers, postId \in 1 .. MaxPosts : DeletePost(cred, postId)
    \/ \E cred \in Callers, postId \in 1 .. MaxPosts : ToggleLike(cred, postId)

SpecToggle == InitSeeded /\ [][NextToggle]_vars

\* C5: for a stored user U and an existing post P, after N toggleLike calls made
\* one after the other, the like row of (U,P) exists iff N is odd, and the
\* value the latest call returned is that state.
C5_ToggleParity ==
    /\ \A p \in DOMAIN posts, u \in DOMAIN users :
          (<<p, u>> \in DOMAIN likes) <=> (<<p, u>> \in toggleParity)
    /\ (last.op = "toggleLike" /\ last.authed /\ last.postId \in DOMAIN posts
           /\ last.actor \in DOMAIN users)
          => /\ last.status = 200
             /\ last.isLiked = (<<last.postId, last.actor>> \in DOMAIN likes)
             /\ last.isLiked = (<<last.postId, last.actor>> \in toggleParity)

\* A user has just unliked a post (an even number of toggles) that another
\* user still likes.
C5_Witness ==
    /\ last.op = "toggleLike" /\ last.status = 200 /\ ~last.isLiked
    /\ last.postId \in DOMAIN posts
    /\ <<last.postId, last.actor>> \notin DOMAIN likes
    /\ \E u \in DOMAIN users : <<last.postId, u>> \in DOMAIN likes

ReferentialIntegrity(postsTbl, commentsTbl, likesTbl) ==
    /\ \A c \in DOMAIN commentsTbl : commentsTbl[c].postId \in DOMAIN postsTbl
    /\ \A pair \in DOMAIN likesTbl : pair[1] \in DOMAIN postsTbl

\* C8: deletePost(P) leaves no comment and no like of P and changes no comment
\* or like of another post; deleteComment(C) removes comment C alone; no comment
\* or like ever references a post that does not exist.
C8_Cascade ==
    [][/\ ReferentialIntegrity(posts', comments', likes')
       /\ (last'.op = "deletePost" /\ last'.status = 200) =>
             /\ DOMAIN posts' = DOMAIN posts \ {last'.postId}
             /\ \A p \in DOMAIN posts' : posts'[p] = posts[p]
             /\ \A c \in DOMAIN comments' : comments'[c].postId # last'.postId
             /\ \A pair \in DOMAIN likes' : pair[1] # last'.postId
             /\ \A c \in DOMAIN comments :
                   comments[c].postId # last'.postId =>
                      (c \in DOMAIN comments' /\ comments'[c] = comments[c])
             /\ \A pair \in DOMAIN likes :
                   pair[1] # last'.postId =>
                      (pair \in DOMAIN likes' /\ likes'[pair] = likes[pair])
             /\ DOMAIN comments' \subseteq DOMAIN comments
             /\ DOMAIN likes' \subseteq DOMAIN likes
       /\ last'.op = "deleteComment" =>
             /\ DOMAIN comments' = DOMAIN comments \ {last'.id}
             /\ \A c \in DOMAIN comments' : comments'[c] = comments[c]
             /\ posts' = posts
             /\ likes' = likes]_vars

\* A post that had a comment and a like was just deleted, and the other post
\* still has its comment and its like.
C8_Witness ==
    /\ last.op = "deletePost" /\ last.status = 200
    /\ last.cascadedComments > 0 /\ last.cascadedLikes > 0
    /\ \E p \in DOMAIN posts :
          /\ \E c \in DOMAIN comments : comments[c].postId = p
          /\ \E pair \in DOMAIN likes : pair[1] = p

(***************************************************************************)
(* SpecLikes: concurrent like toggles. storage.toggleLike awaits its select *)
(* and then its insert or delete, so the calls of other requests run        *)
(* between the two; `pending` holds the calls whose select has returned.    *)
(***************************************************************************)
\* POST /api/posts/:id/like up to the select of storage.toggleLike.
ToggleLikeSelect(cred, postId) ==
    LET auth == Actor(cred)
        userId == auth.userId
        existing == selectLike(likes, postId, userId)
        call == [userId |-> userId, postId |-> postId, existing |-> existing]
    IN /\ pending' = IF auth.next THEN pending (+) SetToBag({call}) ELSE pending
       /\ last' = [op |-> "toggleLikeSelect", authed |-> auth.next, actor |-> userId,
                   postId |-> postId, existing |-> existing,
                   status |-> IF auth.next THEN 0 ELSE 401, isLiked |-> FALSE]
       /\ UNCHANGED <<cfgVars, userVars, postVars, likes, toggleParity, chatVars,
                      wsVars, webhookLog>>

\* The rest of the request: the delete or the insert, and the response.
ToggleLikeWrite(call) ==
    LET written == toggleLikeWrite(call.existing, likes, posts, users,
                                   call.postId, call.userId)
        status == IF written.threw THEN 500 ELSE 200
    IN /\ BagIn(call, pending)
       /\ pending' = pending (-) SetToBag({call})
       /\ likes' = IF status = 200 THEN written.likes ELSE likes
       /\ last' = [op |-> "toggleLikeWrite", authed |-> TRUE, actor |-> call.userId,
                   postId |-> call.postId, existing |-> call.existing,
                   status |-> status, isLiked |-> written.isLiked]
       /\ UNCHANGED <<cfgVars, userVars, postVars, toggleParity, chatVars, wsVars,
                      webhookLog>>

NextLikes ==
    \/ \E cred \in Writers :
          nextPostId <= MaxPosts /\ CreatePost(cred, " hello ", FALSE)
    \/ \E cred \in Members, postId \in 1 .. MaxPosts : DeletePost(cred, postId)
    \/ \E cred \in Members, postId \in 1 .. MaxPosts :
          BagCardinality(pending) < MaxInflight /\ ToggleLikeSelect(cred, postId)
    \/ \E call \in BagToSet(pending) : ToggleLikeWrite(call)

SpecLikes == InitSeeded /\ [][NextLikes]_vars

\* C6: however the selects and writes of concurrent toggleLike calls interleave,
\* no (post, user) pair ever has more than one like row, and a call that found
\* no row but writes after another call inserted it fails and changes nothing.
C6_NoDuplicateLike ==
    [][/\ \A pair \in DOMAIN likes' : likes'[pair] = 1
       /\ (/\ last'.op = "toggleLikeWrite"
           /\ ~last'.existing
           /\ <<last'.postId, last'.actor>> \in DOMAIN likes)
             => (last'.status = 500 /\ likes' = likes)]_vars

\* A stored user's insert into an existing post has just lost the race: its
\* select saw no row, the row was there at its write, and it answered 500.
C6_Witness ==
    /\ last.op = "toggleLikeWrite" /\ ~last.existing /\ last.status = 500
    /\ last.postId \in DOMAIN posts
    /\ last.actor \in DOMAIN users
    /\ <<last.postId, last.actor>> \in DOMAIN likes
    /\ likes[<<last.postId, last.actor>>] = 1

\* C7: a like write of one user on a post changes the like row of that user on
\* that post and no other row, whatever calls are in flight: a like adds the
\* row, an unlike removes it, the likes of the other users stay; and for every
\* post getPost/getPosts report as likesCount the number of users who have a
\* like row on it and as isLiked(U) whether U has one.
C7_DistinctUsersIndependent ==
    [][/\ \A p \in DOMAIN posts', u \in DOMAIN users :
             LET view == getPost(posts', comments', likes', p, u)
             IN /\ view.likesCount =
                      Cardinality({v \in DOMAIN users : <<p, v>> \in DOMAIN likes'})
                /\ view.isLiked = (<<p, u>> \in DOMAIN likes')
       /\ (last'.op = "toggleLikeWrite" /\ last'.status = 200) =>
             LET own == <<last'.postId, last'.actor>>
             IN /\ \A pair \in (DOMAIN likes \cup DOMAIN likes') \ {own} :
                      /\ pair \in DOMAIN likes
                      /\ pair \in DOMAIN likes'
                      /\ likes'[pair] = likes[pair]
                /\ (own \in DOMAIN likes') = ~last'.existing
                /\ last'.isLiked = (own \in DOMAIN likes')]_vars

\* A and B both liked the post and A has just unliked it while a call of B on
\* the same post is in flight: likesCount is 1, isLiked is false for A and true
\* for B.
C7_Witness ==
    /\ last.op = "toggleLikeWrite" /\ last.status = 200 /\ last.existing
    /\ last.postId \in DOMAIN posts
    /\ \E other \in DOMAIN users \ {last.actor} :
          /\ getPost(posts, comments, likes, last.postId, other).isLiked
          /\ ~getPost(posts, comments, likes, last.postId, last.actor).isLiked
          /\ getPost(posts, comments, likes, last.postId, other).likesCount = 1
          /\ \E call \in BagToSet(pending) :
                call.userId = other /\ call.postId = last.postId

(***************************************************************************)
(* SpecWs: the WebSocket registry and the chat broadcast.                  *)
(* `clients` is the Map of routes.ts in insertion order, readyState the    *)
(* state of each socket, inbox the frames each socket was sent.            *)
(***************************************************************************)
\* Map.prototype.set: a new key goes to the end, a present key keeps its place.
clientsSet(reg, ws, userId) ==
    IF \E i \in 1 .. Len(reg) : reg[i].ws = ws
    THEN [i \in 1 .. Len(reg) |->
             IF reg[i].ws = ws THEN [ws |-> ws, userId |-> userId] ELSE reg[i]]
    ELSE Append(reg, [ws |-> ws, userId |-> userId])

\* Map.prototype.delete
clientsDelete(reg, ws) == SelectSeq(reg, LAMBDA entry : entry.ws # ws)

AuthSuccess == [type |-> "auth_success", id |-> 0]

ChatEvent(id) == [type |-> "chat_message", id |-> id]

RECURSIVE broadcast_AuthenticatedOnly(_, _, _, _, _)
\* The broadcast that skips the connections whose identity is empty.
broadcast_AuthenticatedOnly(reg, states, boxes, message, failing) ==
    IF reg = <<>> THEN [threw |-> FALSE, inbox |-> boxes]
    ELSE LET client == Head(reg).ws
         IN IF states[client] = "OPEN" /\ Head(reg).userId # ""
            THEN IF client = failing
                 THEN [threw |-> TRUE, inbox |-> boxes]
                 ELSE broadcast_AuthenticatedOnly(Tail(reg), states,
                         [boxes EXCEPT ![client] = Append(@, message)], message, failing)
            ELSE broadcast_AuthenticatedOnly(Tail(reg), states, boxes, message, failing)

RECURSIVE broadcast(_, _, _, _, _)
\* broadcast: clients.forEach in insertion order, send to the OPEN sockets
\* only; the send of socket `failing` raises, and nothing catches it, so the
\* forEach ends there.
broadcast(reg, states, boxes, message, failing) ==
    IF reg = <<>> THEN [threw |-> FALSE, inbox |-> boxes]
    ELSE LET client == Head(reg).ws
         IN IF states[client] = "OPEN"
            THEN IF client = failing
                 THEN [threw |-> TRUE, inbox |-> boxes]
                 ELSE broadcast(Tail(reg), states,
                         [boxes EXCEPT ![client] = Append(@, message)], message, failing)
            ELSE broadcast(Tail(reg), states, boxes, message, failing)

\* A createChatMessage whose failed insert is not raised.
createChatMessage_SilentFailure(tbl, usersTbl, id, row) ==
    [threw |-> FALSE,
     chatMessages |-> IF row.authorId \in DOMAIN usersTbl
                      THEN [m \in DOMAIN tbl \cup {id} |-> IF m = id THEN row ELSE tbl[m]]
                      ELSE tbl]

\* createChatMessage: the insert throws when authorId references no user.
createChatMessage(tbl, usersTbl, id, row) ==
    IF row.authorId \in DOMAIN usersTbl
    THEN [threw |-> FALSE,
          chatMessages |-> [m \in DOMAIN tbl \cup {id} |-> IF m = id THEN row ELSE tbl[m]]]
    ELSE [threw |-> TRUE, chatMessages |-> tbl]

\* wss.on('connection'): a new socket is tracked with the empty identity.
Connect ==
    LET ws == Cardinality(DOMAIN readyState) + 1
    IN /\ ws \in Conns
       /\ readyState' = [c \in DOMAIN readyState \cup {ws} |->
                            IF c = ws THEN "OPEN" ELSE readyState[c]]
       /\ inbox' = [c \in DOMAIN inbox \cup {ws} |-> IF c = ws THEN <<>> ELSE inbox[c]]
       /\ clients' = clientsSet(clients, ws, "")
       /\ last' = [op |-> "connect", ws |-> ws]
       /\ UNCHANGED <<cfgVars, userVars, postVars, likeVars, chatVars, pendingAuth,
                      webhookLog>>

\* ws.on('message') with an auth message, up to the await of verifyIdToken.
AuthMessage(ws, token, userId) ==
    /\ ws \in DOMAIN readyState
    /\ readyState[ws] = "OPEN"
    /\ token # ""
    /\ \A p \in pendingAuth : p.ws # ws
    /\ \A i \in 1 .. Len(clients) : clients[i].ws = ws => clients[i].userId = ""
    /\ pendingAuth' = pendingAuth \cup {[ws |-> ws, token |-> token, userId |-> userId]}
    /\ last' = [op |-> "authMessage", ws |-> ws]
    /\ UNCHANGED <<cfgVars, userVars, postVars, likeVars, chatVars, clients, readyState,
                   inbox, webhookLog>>

\* The rest of the message handler, once verifyIdToken has resolved: the
\* socket may have closed meanwhile; its send then fails inside the try.
AuthResolve(p) ==
    LET decodedToken == verifyIdToken(p.token)
        identity == IF decodedToken.decoded THEN decodedToken.uid
                    ELSE IF ~isFirebaseAdminInitialized /\ p.userId # "" THEN p.userId
                    ELSE ""
    IN /\ p \in pendingAuth
       /\ pendingAuth' = pendingAuth \ {p}
       /\ clients' = IF identity # "" THEN clientsSet(clients, p.ws, identity) ELSE clients
       /\ inbox' = IF identity # "" /\ readyState[p.ws] = "OPEN"
                   THEN [inbox EXCEPT ![p.ws] = Append(@, AuthSuccess)]
                   ELSE inbox
       /\ last' = [op |-> "authResolve", ws |-> p.ws]
       /\ UNCHANGED <<cfgVars, userVars, postVars, likeVars, chatVars, readyState,
                      webhookLog>>

\* The closing handshake has started: the socket is CLOSING and its 'close'
\* event has not been emitted yet.
BeginClose(ws) ==
    /\ ws \in DOMAIN readyState
    /\ readyState[ws] = "OPEN"
    /\ readyState' = [readyState EXCEPT ![ws] = "CLOSING"]
    /\ last' = [op |-> "beginClose", ws |-> ws]
    /\ UNCHANGED <<cfgVars, userVars, postVars, likeVars, chatVars, clients, inbox,
                   pendingAuth, webhookLog>>

\* The socket is closed and ws.on('close') removes it from the registry.
Close(ws) ==
    /\ ws \in DOMAIN readyState
    /\ readyState[ws] \in {"OPEN", "CLOSING"}
    /\ readyState' = [readyState EXCEPT ![ws] = "CLOSED"]
    /\ clients' = clientsDelete(clients, ws)
    /\ last' = [op |-> "close", ws |-> ws]
    /\ UNCHANGED <<cfgVars, userVars, postVars, likeVars, chatVars, inbox, pendingAuth,
                   webhookLog>>

\* POST /api/chat.  `failing` is the socket whose send raises during this
\* request's broadcast, 0 when no send raises.
SendChat(cred, content, failing) ==
    LET auth == Actor(cred)
        userId == auth.userId
        row == [content |-> Trim(content), authorId |-> userId]
        created == createChatMessage(chatMessages, users, nextChatId, row)
        webhookUrl == getWebhook(settings, "discord_chat_webhook")
        reached == auth.next /\ ~(content = "" \/ Len(Trim(content)) = 0) /\ ~created.threw
        sent == broadcast(clients, readyState, inbox, ChatEvent(nextChatId), failing)
        status == IF ~auth.next THEN 401
                  ELSE IF content = "" \/ Len(Trim(content)) = 0 THEN 400
                  ELSE IF created.threw THEN 500
                  ELSE IF sent.threw THEN 500
                  ELSE 200
    IN /\ chatMessages' = IF reached THEN created.chatMessages ELSE chatMessages
       /\ nextChatId' = IF reached THEN nextChatId + 1 ELSE nextChatId
       /\ webhookLog' = IF reached /\ webhookUrl # "" /\ userId \in DOMAIN users
                        THEN webhookLog \cup {[key |-> "discord_chat_webhook", id |-> nextChatId]}
                        ELSE webhookLog
       /\ inbox' = IF reached THEN sent.inbox ELSE inbox
       /\ last' = [op |-> "sendChat", authed |-> auth.next, actor |-> userId,
                   content |-> content, status |-> status,
                   id |-> IF reached THEN nextChatId ELSE 0,
                   broadcast |-> reached, failing |-> IF reached THEN failing ELSE 0,
                   registry |-> clients, states |-> readyState]
       /\ UNCHANGED <<cfgVars, userVars, postVars, likeVars, directMessages, clients,
                      readyState, pendingAuth>>

\* The callers of send-chat: member b, c who has no user row, an expired token.
Senders == {cred \in Callers : Actor(cred).userId # "a"}

\* The tokens a socket presents in its auth message.
WsTokens == {"jwt-a", "expired"}

NextWs ==
    \/ Connect
    \/ \E ws \in Conns, token \in WsTokens : AuthMessage(ws, token, "")
    \/ \E p \in pendingAuth : AuthResolve(p)
    \/ \E ws \in Conns : BeginClose(ws)
    \/ \E ws \in Conns : Close(ws)
    \/ \E cred \in Senders, content \in {"  ", " hello "}, failing \in {0} \cup Conns :
          nextChatId <= MaxChat /\ SendChat(cred, content, failing)

SpecWs == InitSeeded /\ [][NextWs]_vars

\* The number of times socket ws was sent the chat event `id`.
Received(boxes, ws, id) ==
    Cardinality({k \in 1 .. Len(boxes[ws]) : boxes[ws][k] = ChatEvent(id)})

\* C9 as stated: a broadcast sends the event exactly once to every connection
\* in the registry at the call, authenticated or not, and to no other socket.
C9_EveryRegisteredReceives ==
    [][(last'.op = "sendChat" /\ last'.broadcast) =>
          /\ \A i \in 1 .. Len(clients) :
                inbox'[clients[i].ws] =
                   Append(inbox[clients[i].ws], ChatEvent(last'.id))
          /\ \A ws \in DOMAIN inbox :
                (\A i \in 1 .. Len(clients) : clients[i].ws # ws) =>
                   inbox'[ws] = inbox[ws]]_vars

\* C9: a broadcast sends the event exactly once to every connection that is in
\* the registry and OPEN at the call, whatever its identity, in registry order
\* up to the first connection whose send raises; a socket that is closing or
\* closed, or that is not in the registry, is sent nothing.
C9_OpenRegisteredReceive ==
    [][(last'.op = "sendChat" /\ last'.broadcast) =>
          LET raisedAt == {i \in 1 .. Len(clients) :
                              /\ readyState[clients[i].ws] = "OPEN"
                              /\ clients[i].ws = last'.failing}
              stop == IF raisedAt = {} THEN Len(clients) + 1
                      ELSE CHOOSE i \in raisedAt : TRUE
          IN /\ \A i \in 1 .. Len(clients) :
                   inbox'[clients[i].ws] =
                      IF readyState[clients[i].ws] = "OPEN" /\ i < stop
                      THEN Append(inbox[clients[i].ws], ChatEvent(last'.id))
                      ELSE inbox[clients[i].ws]
             /\ \A ws \in DOMAIN inbox :
                   (\A i \in 1 .. Len(clients) : clients[i].ws # ws) =>
                      inbox'[ws] = inbox[ws]
             /\ \A ws \in DOMAIN inbox' : Received(inbox', ws, last'.id) <= 1]_vars

\* A chat message was just broadcast with two sockets in the registry: an OPEN
\* one that never authenticated, which got the event once, and a CLOSING one,
\* which got nothing.
C9_Witness ==
    /\ last.op = "sendChat" /\ last.broadcast /\ last.status = 200
    /\ \E i, j \in 1 .. Len(last.registry) :
          /\ last.registry[i].userId = ""
          /\ last.states[last.registry[i].ws] = "OPEN"
          /\ Received(inbox, last.registry[i].ws, last.id) = 1
          /\ last.states[last.registry[j].ws] = "CLOSING"
          /\ Received(inbox, last.registry[j].ws, last.id) = 0

\* C10: when the send to one connection raises during a broadcast, every other
\* OPEN connection of the registry is still sent the event and the send-chat
\* request answers with success.
C10_SendFailureContained ==
    [][(last'.op = "sendChat" /\ last'.broadcast) =>
          /\ last'.status = 200
          /\ \A i \in 1 .. Len(clients) :
                (readyState[clients[i].ws] = "OPEN" /\ clients[i].ws # last'.failing) =>
                   inbox'[clients[i].ws] =
                      Append(inbox[clients[i].ws], ChatEvent(last'.id))]_vars

\* C11: a connection whose close event has been handled is never an entry of
\* the registry again, so the registry holds no closed connection.
C11_ClosedNeverRegistered ==
    \A i \in 1 .. Len(clients) : readyState[clients[i].ws] # "CLOSED"

(***************************************************************************)
(* SpecHook: create-post and send-chat with their awaits.  Both handlers    *)
(* await sendDiscordWebhook before they go on; `pending` holds the calls    *)
(* suspended there, with the answer of the webhook endpoint once it came.   *)
(***************************************************************************)
\* What the webhook endpoint does with a POST: 2xx, another status, or a
\* network error.
WebhookAnswers == {"ok", "non2xx", "network"}

HookCall(op, id, actor) == [op |-> op, id |-> id, actor |-> actor, answer |-> "pending"]

\* POST /api/chat up to `await sendDiscordWebhook`, or to its end when no
\* webhook is sent.  lookupFails: getUser or getSetting rejects.
SendChatStart(cred, content, lookupFails, failing) ==
    LET auth == Actor(cred)
        userId == auth.userId
        blank == content = "" \/ Len(Trim(content)) = 0
        row == [content |-> Trim(content), authorId |-> userId]
        created == createChatMessage(chatMessages, users, nextChatId, row)
        webhookUrl == getWebhook(settings, "discord_chat_webhook")
        persisted == auth.next /\ ~blank /\ ~created.threw
        awaits == persisted /\ ~lookupFails /\ webhookUrl # "" /\ userId \in DOMAIN users
        broadcasts == persisted /\ ~lookupFails /\ ~awaits
        sent == broadcast(clients, readyState, inbox, ChatEvent(nextChatId), failing)
        status == IF ~auth.next THEN 401
                  ELSE IF blank THEN 400
                  ELSE IF created.threw \/ lookupFails THEN 500
                  ELSE IF awaits THEN 0
                  ELSE IF sent.threw THEN 500
                  ELSE 200
    IN /\ chatMessages' = IF persisted THEN created.chatMessages ELSE chatMessages
       /\ nextChatId' = IF persisted THEN nextChatId + 1 ELSE nextChatId
       /\ webhookLog' = IF awaits
                        THEN webhookLog \cup {[key |-> "discord_chat_webhook", id |-> nextChatId]}
                        ELSE webhookLog
       /\ pending' = IF awaits
                     THEN pending (+) SetToBag({HookCall("sendChat", nextChatId, userId)})
                     ELSE pending
       /\ inbox' = IF broadcasts THEN sent.inbox ELSE inbox
       /\ last' = [op |-> "sendChat", actor |-> userId, status |-> status,
                   id |-> IF persisted THEN nextChatId ELSE 0,
                   persisted |-> persisted,
                   webhook |-> IF awaits THEN "pending" ELSE "none",
                   broadcast |-> broadcasts,
                   failing |-> IF broadcasts THEN failing ELSE 0]
       /\ UNCHANGED <<cfgVars, userVars, postVars, likes, toggleParity, directMessages,
                      clients, readyState, pendingAuth>>

\* The webhook endpoint answers the POST of a suspended call, or the fetch
\* fails; sendDiscordWebhook logs a failure and returns either way.
WebhookAnswer(call, answer) ==
    /\ BagIn(call, pending)
    /\ call.answer = "pending"
    /\ pending' = (pending (-) SetToBag({call}))
                     (+) SetToBag({[call EXCEPT !.answer = answer]})
    /\ last' = [op |-> "webhookAnswer", id |-> call.id, webhook |-> answer]
    /\ UNCHANGED <<cfgVars, userVars, postVars, likes, toggleParity, chatVars, wsVars,
                   webhookLog>>

\* POST /api/chat after sendDiscordWebhook returned: broadcast, res.json.
SendChatFinish(call, failing) ==
    LET sent == broadcast(clients, readyState, inbox, ChatEvent(call.id), failing)
    IN /\ BagIn(call, pending)
       /\ call.op = "sendChat"
       /\ call.answer # "pending"
       /\ pending' = pending (-) SetToBag({call})
       /\ inbox' = sent.inbox
       /\ last' = [op |-> "sendChat", actor |-> call.actor,
                   status |-> IF sent.threw THEN 500 ELSE 200,
                   id |-> call.id, persisted |-> TRUE, webhook |-> call.answer,
                   broadcast |-> TRUE, failing |-> failing]
       /\ UNCHANGED <<cfgVars, userVars, postVars, likes, toggleParity, chatVars,
                      clients, readyState, pendingAuth, webhookLog>>

\* POST /api/posts up to `await sendDiscordWebhook`, or to its end when no
\* webhook is sent.  lookupFails: getUser or getSetting rejects.
CreatePostStart(cred, content, isAdminPost, lookupFails) ==
    LET auth == Actor(cred)
        userId == auth.userId
        blank == content = "" \/ Len(Trim(content)) = 0
        row == [content |-> Trim(content), authorId |-> userId, isAdminPost |-> isAdminPost]
        created == createPost(posts, users, nextPostId, row)
        webhookKey == IF isAdminPost THEN "discord_announcements_webhook"
                      ELSE "discord_feed_webhook"
        webhookUrl == getWebhook(settings, webhookKey)
        persisted == /\ auth.next /\ ~blank
                     /\ ~(isAdminPost /\ ~hasAdminPrivilege(users, userId))
                     /\ ~created.threw
        awaits == persisted /\ ~lookupFails /\ webhookUrl # "" /\ userId \in DOMAIN users
        status == IF ~auth.next THEN 401
                  ELSE IF blank THEN 400
                  ELSE IF isAdminPost /\ ~hasAdminPrivilege(users, userId) THEN 403
                  ELSE IF created.threw \/ lookupFails THEN 500
                  ELSE IF awaits THEN 0
                  ELSE 200
    IN /\ posts' = IF persisted THEN created.posts ELSE posts
       /\ nextPostId' = IF persisted THEN nextPostId + 1 ELSE nextPostId
       /\ webhookLog' = IF awaits
                        THEN webhookLog \cup {[key |-> webhookKey, id |-> nextPostId]}
                        ELSE webhookLog
       /\ pending' = IF awaits
                     THEN pending (+) SetToBag({HookCall("createPost", nextPostId, userId)})
                     ELSE pending
       /\ last' = [op |-> "createPost", actor |-> userId, status |-> status,
                   id |-> IF persisted THEN nextPostId ELSE 0,
                   persisted |-> persisted,
                   webhook |-> IF awaits THEN "pending" ELSE "none",
                   broadcast |-> FALSE, failing |-> 0]
       /\ UNCHANGED <<cfgVars, userVars, comments, nextCommentId, likes, toggleParity,
                      chatVars, wsVars>>

\* POST /api/posts after sendDiscordWebhook returned: res.json(post).
CreatePostFinish(call) ==
    /\ BagIn(call, pending)
    /\ call.op = "createPost"
    /\ call.answer # "pending"
    /\ pending' = pending (-) SetToBag({call})
    /\ last' = [op |-> "createPost", actor |-> call.actor, status |-> 200,
                id |-> call.id, persisted |-> TRUE, webhook |-> call.answer,
                broadcast |-> FALSE, failing |-> 0]
    /\ UNCHANGED <<cfgVars, userVars, postVars, likes, toggleParity, chatVars, wsVars,
                   webhookLog>>

\* The owner's credential.
OwnerCallers == {cred \in Callers : Actor(cred).userId = "a"}

NextHook ==
    \/ \E cred \in OwnerCallers :
          SetWebhooks(cred, "https://discord.test/hook", "", "https://discord.test/hook")
    \/ Connect
    \/ \E cred \in Senders, content \in {"  ", " hello "}, lookupFails \in BOOLEAN,
          failing \in {0} \cup Conns :
          nextChatId <= MaxChat /\ SendChatStart(cred, content, lookupFails, failing)
    \/ \E call \in BagToSet(pending), answer \in WebhookAnswers : WebhookAnswer(call, answer)
    \/ \E call \in BagToSet(pending), failing \in {0} \cup Conns : SendChatFinish(call, failing)
    \/ \E cred \in Writers, lookupFails \in BOOLEAN :
          nextPostId <= MaxPostsNarrow /\ CreatePostStart(cred, " hello ", FALSE, lookupFails)
    \/ \E call \in BagToSet(pending) : CreatePostFinish(call)

SpecHook == InitSeeded /\ [][NextHook]_vars

\* C12: when the chat webhook fails, the chat message stays stored as written,
\* the chat_message event is sent to every registered connection and the
\* sender is answered with success.
C12_WebhookFailureSwallowed ==
    [][(last'.op = "sendChat" /\ last'.webhook \in {"non2xx", "network"}) =>
          /\ last'.status = 200
          /\ last'.id \in DOMAIN chatMessages'
          /\ chatMessages' = chatMessages
          /\ \A i \in 1 .. Len(clients) :
                inbox'[clients[i].ws] =
                   Append(inbox[clients[i].ws], ChatEvent(last'.id))]_vars

\* A create-post or send-chat call is suspended at its webhook await.
Awaiting(op, id) ==
    \E call \in BagToSet(pending) : call.op = op /\ call.id = id

\* SpecHookLive: the handlers' own continuations always get to run; nothing
\* makes the webhook endpoint answer.
SpecHookLive ==
    /\ SpecHook
    /\ WF_vars(\E call \in BagToSet(pending), failing \in {0} \cup Conns :
                  SendChatFinish(call, failing))
    /\ WF_vars(\E call \in BagToSet(pending) : CreatePostFinish(call))

\* C13: the response of create-post and send-chat does not wait for the
\* webhook: a request whose webhook POST is pending is answered even if the
\* webhook endpoint never answers.
C13_ResponseDoesNotWait ==
    /\ \A id \in 1 .. MaxChat : Awaiting("sendChat", id) ~> ~Awaiting("sendChat", id)
    /\ \A id \in 1 .. MaxPostsNarrow :
          Awaiting("createPost", id) ~> ~Awaiting("createPost", id)

(***************************************************************************)
(* SpecRetention: the chat-retention job among the other writes.           *)
(***************************************************************************)
\* The purge that spares the newest message.
clearChatMessages_KeepNewest(tbl) ==
    [m \in {k \in DOMAIN tbl : \A j \in DOMAIN tbl : j <= k} |-> tbl[m]]

\* clearChatMessages: delete from chat_messages, without a condition.
clearChatMessages(tbl) == [m \in {} |-> tbl[m]]

\* deleteChatMessage: delete from chat_messages where id = ..
deleteChatMessage(tbl, id) == [m \in DOMAIN tbl \ {id} |-> tbl[m]]

\* createDirectMessage: the insert throws when sender or recipient references
\* no user.
createDirectMessage(tbl, usersTbl, id, row) ==
    IF row.senderId \in DOMAIN usersTbl /\ row.recipientId \in DOMAIN usersTbl
    THEN [threw |-> FALSE,
          directMessages |-> [m \in DOMAIN tbl \cup {id} |-> IF m = id THEN row ELSE tbl[m]]]
    ELSE [threw |-> TRUE, directMessages |-> tbl]

\* The callback of scheduleChatCleanup's timer: the purge, then the next timer.
ChatCleanup ==
    /\ chatMessages' = clearChatMessages(chatMessages)
    /\ last' = [op |-> "chatCleanup", purged |-> Cardinality(DOMAIN chatMessages)]
    /\ UNCHANGED <<cfgVars, userVars, postVars, likeVars, nextChatId, directMessages,
                   wsVars, webhookLog>>

\* DELETE /api/chat/:id
DeleteChatMessage(cred, messageId) ==
    LET auth == Actor(cred)
        userId == auth.userId
        status == IF ~auth.next THEN 401
                  ELSE IF ~userHasAdminAccess(users, userId) THEN 403
                  ELSE 200
    IN /\ chatMessages' = IF status = 200 THEN deleteChatMessage(chatMessages, messageId)
                          ELSE chatMessages
       /\ last' = [op |-> "deleteChatMessage", actor |-> userId, id |-> messageId,
                   status |-> status]
       /\ UNCHANGED <<cfgVars, userVars, postVars, likeVars, nextChatId, directMessages,
                      wsVars, webhookLog>>

\* POST /api/dm/:userId
SendDirectMessage(cred, recipientId, content) ==
    LET auth == Actor(cred)
        senderId == auth.userId
        id == Cardinality(DOMAIN directMessages) + 1
        row == [content |-> Trim(content), senderId |-> senderId, recipientId |-> recipientId]
        created == createDirectMessage(directMessages, users, id, row)
        status == IF ~auth.next THEN 401
                  ELSE IF content = "" \/ Len(Trim(content)) = 0 THEN 400
                  ELSE IF created.threw THEN 500
                  ELSE 200
    IN /\ directMessages' = IF status = 200 THEN created.directMessages ELSE directMessages
       /\ last' = [op |-> "sendDirectMessage", authed |-> auth.next, actor |-> senderId,
                   recipient |-> recipientId, content |-> content, status |-> status]
       /\ UNCHANGED <<cfgVars, userVars, postVars, likeVars, chatMessages, nextChatId,
                      wsVars, webhookLog>>

NextRetention ==
    \/ \E cred \in OwnerCallers : SetPassword(cred, "brotherhood")
    \/ \E cred \in Writers : Unlock(cred, "brotherhood")
    \/ \E cred \in Writers : nextChatId <= MaxRetained /\ SendChat(cred, " hello ", 0)
    \/ ChatCleanup
    \/ \E cred \in Members, messageId \in 1 .. MaxRetained : DeleteChatMessage(cred, messageId)
    \/ \E cred \in Writers :
          nextPostId <= MaxPostsNarrow /\ CreatePost(cred, " hello ", FALSE)
    \/ \E cred \in Writers, postId \in 1 .. MaxPostsNarrow : ToggleLike(cred, postId)
    \/ \E cred \in Writers, postId \in 1 .. MaxPostsNarrow :
          nextCommentId <= MaxPostsNarrow /\ CreateComment(cred, postId, " hello ")
    \/ \E cred \in Writers :
          Cardinality(DOMAIN directMessages) < MaxDms
             /\ SendDirectMessage(cred, "a", " hello ")

SpecRetention == InitSeeded /\ [][NextRetention]_vars

GuardCredentials ==
    [authHeader : {NoAuthHeader, [scheme |-> "Basic", token |-> "jwt-a"],
                   Bearer("jwt-a"), Bearer("expired"), Bearer(""),
                   Bearer("test-token-dev")},
     xUserId : {"", "a"}]

\* The request carries a bearer token that the identity provider accepts.
VerifiedCredential(cred) ==
    /\ cred.authHeader.scheme = "Bearer"
    /\ ~FirebaseVerify(cred.authHeader.token).rejected

\* A request with credential cred to one of the routes behind authMiddleware.
GuardedRequest(cred) ==
    \/ nextPostId <= MaxPostsNarrow /\ CreatePost(cred, " hello ", FALSE)
    \/ \E postId \in 1 .. MaxPostsNarrow : DeletePost(cred, postId)
    \/ \E postId \in 1 .. MaxPostsNarrow : ToggleLike(cred, postId)
    \/ \E postId \in 1 .. MaxPostsNarrow :
          nextCommentId <= MaxPostsNarrow /\ CreateComment(cred, postId, " hello ")
    \/ nextChatId <= MaxChat /\ SendChat(cred, " hello ", 0)
    \/ \E messageId \in 1 .. MaxChat : DeleteChatMessage(cred, messageId)
    \/ Cardinality(DOMAIN directMessages) < MaxDms /\ SendDirectMessage(cred, "b", " hello ")
    \/ SetPassword(cred, "brotherhood")
    \/ Unlock(cred, "brotherhood")
    \/ SetWebhooks(cred, "https://discord.test/hook", "", "")

NextGuard == \E cred \in GuardCredentials : GuardedRequest(cred)

SpecGuard == InitSeeded /\ [][NextGuard]_vars

\* C15: a request to a guarded route that carries no credential, or one the
\* identity provider does not accept, is answered 401 and changes no table,
\* sends no frame and no webhook.
C15_UnverifiedRejected ==
    [][\A cred \in GuardCredentials :
          (~VerifiedCredential(cred) /\ GuardedRequest(cred)) =>
             /\ last'.status = 401
             /\ UNCHANGED <<userVars, postVars, likes, chatVars, inbox, webhookLog>>]_vars

(***************************************************************************)
(* SpecDelete: post deletion by authors, the owner, admin-access holders    *)
(* and strangers.                                                           *)
(***************************************************************************)
NextDelete ==
    \/ \E cred \in OwnerCallers : SetPassword(cred, "brotherhood")
    \/ \E cred \in Writers : Unlock(cred, "brotherhood")
    \/ \E cred \in Members :
          nextPostId <= MaxPosts /\ CreatePost(cred, " hello ", FALSE)
    \/ \E cred \in Callers, postId \in 1 .. MaxPosts : DeletePost(cred, postId)
    \/ \E cred \in Writers, postId \in 1 .. MaxPosts : ToggleLike(cred, postId)
    \/ \E cred \in Writers, postId \in 1 .. MaxPosts :
          nextCommentId <= MaxPostsNarrow /\ CreateComment(cred, postId, " hello ")

SpecDelete == InitSeeded /\ [][NextDelete]_vars

\* C16: a delete-post request of an authenticated actor A for an existing post
\* P removes P exactly when A is P's author or A's record has isOwner;
\* otherwise it is answered 403 and no post, comment or like changes.
C16_DeleteByAuthorOrOwner ==
    [][(last'.op = "deletePost" /\ last'.authed /\ last'.postId \in DOMAIN posts) =>
          LET actor == last'.actor
              allowed == \/ posts[last'.postId].authorId = actor
                         \/ (actor \in DOMAIN users /\ users[actor].isOwner)
          IN /\ allowed => (last'.status = 200 /\ last'.postId \notin DOMAIN posts')
             /\ ~allowed => /\ last'.status = 403
                            /\ UNCHANGED <<posts, comments, likes>>]_vars

\* An admin-access holder who is neither the author nor the owner was just
\* refused the deletion of a post that has a comment and a like.
C16_Witness ==
    /\ last.op = "deletePost" /\ last.status = 403
    /\ last.actor \in DOMAIN users
    /\ users[last.actor].hasAdminAccess /\ ~users[last.actor].isOwner
    /\ last.postId \in DOMAIN posts
    /\ posts[last.postId].authorId # last.actor
    /\ \E c \in DOMAIN comments : comments[c].postId = last.postId
    /\ <<last.postId, last.actor>> \in DOMAIN likes

(***************************************************************************)
(* SpecRoles: role grants and revokes, the admin password and the webhook  *)
(* configuration, with identity syncs in between.                          *)
(***************************************************************************)
\* The role check that wants a rank of the actor instead of the two flags.
mayManageRoles_ByRank(tbl, userId) == userRole(tbl, userId) = "Supreme Leader"

\* if (!user?.isOwner && !user?.hasAdminAccess) return 403
mayManageRoles(tbl, userId) ==
    userIsOwner(tbl, userId) \/ userHasAdminAccess(tbl, userId)

\* grantRole: update users set role = .. where id = ..; undefined when no row.
grantRole(tbl, userId, role) ==
    [found |-> userId \in DOMAIN tbl, users |-> updateUser(tbl, userId, [role |-> role])]

\* revokeRole: update users set role = null where id = ..
revokeRole(tbl, userId) ==
    [found |-> userId \in DOMAIN tbl, users |-> updateUser(tbl, userId, [role |-> ""])]

\* POST /api/users/:userId/role
GrantRole(cred, targetUserId, role) ==
    LET auth == Actor(cred)
        userId == auth.userId
        updated == grantRole(users, targetUserId, role)
        status == IF ~auth.next THEN 401
                  ELSE IF ~mayManageRoles(users, userId) THEN 403
                  ELSE IF ~updated.found THEN 404
                  ELSE 200
    IN /\ users' = IF status = 200 THEN updated.users ELSE users
       /\ last' = [op |-> "grantRole", authed |-> auth.next, actor |-> userId,
                   target |-> targetUserId, role |-> role, status |-> status]
       /\ UNCHANGED <<cfgVars, settings, postVars, likeVars, chatVars, wsVars, webhookLog>>

\* DELETE /api/users/:userId/role
RevokeRole(cred, targetUserId) ==
    LET auth == Actor(cred)
        userId == auth.userId
        updated == revokeRole(users, targetUserId)
        status == IF ~auth.next THEN 401
                  ELSE IF ~mayManageRoles(users, userId) THEN 403
                  ELSE IF ~updated.found THEN 404
                  ELSE 200
    IN /\ users' = IF status = 200 THEN updated.users ELSE users
       /\ last' = [op |-> "revokeRole", authed |-> auth.next, actor |-> userId,
                   target |-> targetUserId, role |-> "", status |-> status]
       /\ UNCHANGED <<cfgVars, settings, postVars, likeVars, chatVars, wsVars, webhookLog>>

\* GET /api/admin/webhooks
GetWebhooks(cred) ==
    LET auth == Actor(cred)
        userId == auth.userId
        status == IF ~auth.next THEN 401
                  ELSE IF ~mayConfigureWebhooks(users, userId) THEN 403
                  ELSE 200
    IN /\ last' = [op |-> "getWebhooks", actor |-> userId, status |-> status]
       /\ UNCHANGED <<cfgVars, userVars, postVars, likeVars, chatVars, wsVars, webhookLog>>

\* GET /api/admin/check-password
CheckPassword(cred) ==
    LET auth == Actor(cred)
        userId == auth.userId
        status == IF ~auth.next THEN 401
                  ELSE IF ~userIsOwner(users, userId) THEN 403
                  ELSE 200
    IN /\ last' = [op |-> "checkPassword", actor |-> userId, password |-> "",
                   status |-> status,
                   hasPassword |-> status = 200 /\ "admin_password" \in DOMAIN settings]
       /\ UNCHANGED <<cfgVars, userVars, postVars, likeVars, chatVars, wsVars, webhookLog>>

\* The ranks a request grants: the top rank and a lower one.
GrantedRoles == {"Supreme Leader", "admin"}

NextRoles ==
    \/ \E cred \in Members, password \in {"", "abc", "abcd", "brotherhood"} :
          SetPassword(cred, password)
    \/ \E cred \in Members : CheckPassword(cred)
    \/ \E cred \in Writers : Unlock(cred, "brotherhood")
    \/ \E cred \in Callers, targetUserId \in UserIds, role \in GrantedRoles :
          GrantRole(cred, targetUserId, role)
    \/ \E cred \in Callers, targetUserId \in UserIds : RevokeRole(cred, targetUserId)
    \/ \E cred \in OwnerCallers : SetWebhooks(cred, "https://discord.test/hook", "", "")
    \/ \E cred \in Writers : SetWebhooks(cred, "", "", "https://discord.test/hook")
    \/ \E cred \in Members : GetWebhooks(cred)
    \/ \E email \in Emails : AuthSync("b", email, "Name")

SpecRoles == InitSeeded /\ [][NextRoles]_vars

\* C17: a grant-role or revoke-role request of an authenticated actor A on a
\* stored user T sets T's role (to the rank granted, or to none) exactly when
\* A's record has isOwner or hasAdminAccess, whatever A's role, T's role, the
\* rank, and whether T is A; otherwise it is answered 403 and no user changes.
C17_RoleGrantByFlags ==
    [][(/\ last'.op \in {"grantRole", "revokeRole"}
        /\ last'.authed
        /\ last'.target \in DOMAIN users) =>
          LET actor == last'.actor
              target == last'.target
              allowed == /\ actor \in DOMAIN users
                         /\ (users[actor].isOwner \/ users[actor].hasAdminAccess)
          IN /\ allowed =>
                   /\ last'.status = 200
                   /\ users' = [users EXCEPT ![target].role = last'.role]
             /\ ~allowed => (last'.status = 403 /\ users' = users)]_vars

\* An admin-access holder who is not the owner has just granted the top rank
\* to themselves.
C17_Witness ==
    /\ last.op = "grantRole" /\ last.status = 200
    /\ last.actor = last.target
    /\ last.role = "Supreme Leader"
    /\ users[last.actor].hasAdminAccess /\ ~users[last.actor].isOwner
    /\ users[last.actor].role = "Supreme Leader"

\* C18: a read or write of the webhook configuration by an authenticated
\* actor A is allowed exactly when A's stored record, as it is at the request,
\* has isOwner or the role "Supreme Leader"; otherwise it is answered 403 and
\* no setting changes, whatever A was granted before.
C18_WebhookConfigFreshCheck ==
    [][(last'.op \in {"getWebhooks", "setWebhooks"} /\ last'.status # 401) =>
          LET actor == last'.actor
              allowed == /\ actor \in DOMAIN users
                         /\ (users[actor].isOwner \/ users[actor].role = "Supreme Leader")
          IN /\ allowed => last'.status = 200
             /\ ~allowed => (last'.status = 403 /\ settings' = settings)
             /\ last'.op = "getWebhooks" => settings' = settings]_vars

\* Member b, who configured the chat webhook while allowed, has since lost the
\* rank and the owner flag and was just refused a write; b still holds admin
\* access.
C18_Witness ==
    /\ last.op = "setWebhooks" /\ last.status = 403 /\ last.actor = "b"
    /\ "discord_chat_webhook" \in DOMAIN settings
    /\ users["b"].role # "Supreme Leader" /\ ~users["b"].isOwner
    /\ users["b"].hasAdminAccess

\* C19: the stored admin password changes only by a set-password request of
\* an actor whose record has isOwner, with a password of at least 4 characters;
\* a set-password or check-password request of an authenticated non-owner is
\* answered 403, an owner's too short password 400, and both leave the
\* settings as they were.
C19_PasswordOwnerOnly ==
    [][LET key == "admin_password"
           changed == \/ (key \in DOMAIN settings') # (key \in DOMAIN settings)
                      \/ (key \in DOMAIN settings /\ key \in DOMAIN settings'
                             /\ settings'[key] # settings[key])
           actor == last'.actor
           owner == actor \in DOMAIN users /\ users[actor].isOwner
       IN /\ changed =>
                /\ last'.op = "setPassword" /\ last'.status = 200
                /\ owner
                /\ Len(last'.password) >= 4
          /\ (last'.op \in {"setPassword", "checkPassword"} /\ last'.status # 401) =>
                /\ ~owner => (last'.status = 403 /\ settings' = settings)
                /\ (owner /\ last'.op = "setPassword" /\ Len(last'.password) < 4) =>
                      (last'.status = 400 /\ settings' = settings)
                /\ (owner /\ last'.op = "setPassword" /\ Len(last'.password) >= 4) =>
                      (last'.status = 200 /\ settings'[key] = bcryptHash(last'.password))
                /\ (owner /\ last'.op = "checkPassword") => last'.status = 200]_vars

\* With a password stored, member b, who holds admin access and the top rank
\* but is not the owner, was just refused a set-password request.
C19_Witness ==
    /\ last.op = "setPassword" /\ last.status = 403 /\ last.actor = "b"
    /\ Len(last.password) >= 4
    /\ "admin_password" \in DOMAIN settings
    /\ users["b"].hasAdminAccess /\ users["b"].role = "Supreme Leader"
    /\ ~users["b"].isOwner

\* C20: the response of create-post and send-chat is a success exactly when
\* the post or chat message row was stored; no later step of the handler turns
\* a stored row into an error response.
C20_ResponseTellsOutcome ==
    [][(last'.op \in {"createPost", "sendChat"} /\ last'.status # 0) =>
          ((last'.status = 200) <=> last'.persisted)]_vars

(***************************************************************************)
(* Requests addressed to a post id that does not resolve, in SpecCascade.  *)
(***************************************************************************)
\* C21: every authenticated request addressed to a post id that does not
\* resolve (delete post, add comment, toggle like) is answered 404, whoever the
\* actor is, and changes no table.
C21_UnresolvedIdNotFound ==
    [][(/\ last'.op \in {"deletePost", "toggleLike", "createComment"}
        /\ last'.authed
        /\ last'.postId \notin DOMAIN posts)
          => (/\ last'.status = 404
              /\ UNCHANGED <<userVars, postVars, comments, nextCommentId, likes>>)]_vars

(***************************************************************************)
(* SpecContent: the four requests that store a text, with every content of *)
(* Contents, while sockets are connected and the webhooks are configured.   *)
(***************************************************************************)
NextContent ==
    \/ \E cred \in OwnerCallers :
          SetWebhooks(cred, "https://discord.test/hook", "", "https://discord.test/hook")
    \/ Connect
    \/ \E cred \in Senders, content \in Contents :
          nextPostId <= MaxPostsNarrow /\ CreatePost(cred, content, FALSE)
    \/ \E cred \in Senders, postId \in 1 .. MaxPostsNarrow, content \in Contents :
          nextCommentId <= MaxPostsNarrow /\ CreateComment(cred, postId, content)
    \/ \E cred \in Senders, content \in Contents :
          nextChatId <= MaxChat /\ SendChat(cred, content, 0)
    \/ \E cred \in Senders, recipientId \in {"a", "c"}, content \in Contents :
          Cardinality(DOMAIN directMessages) < MaxDms
             /\ SendDirectMessage(cred, recipientId, content)

SpecContent == InitSeeded /\ [][NextContent]_vars

\* The contents that are empty or hold nothing but whitespace.
BlankContents == {"", "  "}

\* C22: a create-post, add-comment, send-chat or send-direct-message request
\* whose content is missing, empty or only whitespace is answered 400 and
\* changes nothing: no row, no socket event, no webhook; and every stored post,
\* comment, chat message and direct message has a non-empty, trimmed content.
C22_BlankContentRejected ==
    /\ [][(/\ last'.op \in {"createPost", "createComment", "sendChat", "sendDirectMessage"}
           /\ last'.authed
           /\ last'.content \in BlankContents)
             => (/\ last'.status = 400
                 /\ UNCHANGED <<userVars, postVars, likes, chatVars, inbox, webhookLog>>)]_vars
    /\ [](\A tbl \in {posts, comments, chatMessages, directMessages} :
             \A id \in DOMAIN tbl :
                /\ tbl[id].content \notin BlankContents
                /\ tbl[id].content = "hello")

\* A whitespace-only chat message has just been refused while a socket is
\* connected, the chat webhook is configured and an earlier message is stored.
C22_Witness ==
    /\ last.op = "sendChat" /\ last.authed /\ last.content = "  " /\ last.status = 400
    /\ DOMAIN clients # {}
    /\ getWebhook(settings, "discord_chat_webhook") # ""
    /\ DOMAIN directMessages # {} /\ DOMAIN posts # {} /\ DOMAIN comments # {}

(***************************************************************************)
(* SpecRanks: role grants and revokes with any role text in the body.      *)
(***************************************************************************)
\* The values of req.body.role: the named ranks and a text that is none.
RoleBodies == Roles \cup {"Emperor"}

NextRanks ==
    \/ \E cred \in OwnerCallers : SetPassword(cred, "brotherhood")
    \/ \E cred \in Writers : Unlock(cred, "brotherhood")
    \/ \E cred \in Callers, targetUserId \in UserIds, role \in RoleBodies :
          GrantRole(cred, targetUserId, role)
    \/ \E cred \in Callers, targetUserId \in UserIds : RevokeRole(cred, targetUserId)

SpecRanks == InitSeeded /\ [][NextRanks]_vars

\* C23: the role of every stored user is absent or one of the named ranks,
\* after any sequence of grant-role and revoke-role requests.
C23_RoleInEnumeration ==
    \A u \in DOMAIN users : users[u].role \in Roles \cup {""}

\* C24: every chat_message event written to a socket names a chat message that
\* is stored when the event is written (and, when the handler had waited for the
\* webhook, was stored before the step that writes it); a send-chat request
\* whose store write did not succeed writes no event.
C24_BroadcastAfterCommit ==
    [][/\ \A ws \in DOMAIN inbox' :
             \A i \in 1 .. Len(inbox'[ws]) :
                (/\ ws \in DOMAIN inbox => i > Len(inbox[ws])
                 /\ inbox'[ws][i].type = "chat_message")
                   => /\ inbox'[ws][i].id \in DOMAIN chatMessages'
                      /\ inbox'[ws][i].id = last'.id
                      /\ last'.webhook # "none" => last'.id \in DOMAIN chatMessages
       /\ (last'.op = "sendChat" /\ ~last'.persisted) => inbox' = inbox]_vars

\* A send-chat request that had waited for the webhook has just broadcast the
\* event of its message, which is stored, to a socket.
C24_Witness ==
    /\ last.op = "sendChat" /\ last.broadcast /\ last.webhook = "network"
    /\ last.id \in DOMAIN chatMessages
    /\ \E ws \in DOMAIN inbox : Received(inbox, ws, last.id) = 1

(***************************************************************************)
(* SpecWsAuth: every inbound socket message, with and without a verifier.  *)
(***************************************************************************)
\* The inbound frames: type "malformed" is a frame JSON.parse rejects; "" is a
\* missing token or userId field.
WsMessages == [type : {"auth", "ping", "malformed"}, token : {""} \cup WsTokens,
               userId : {"", "a"}]

\* ws.on('message') for a frame that does not reach verifyIdToken: JSON.parse
\* throws into the catch, or the test `type === 'auth' && token` fails.
WsMessage(ws, message) ==
    /\ ws \in DOMAIN readyState
    /\ readyState[ws] = "OPEN"
    /\ ~(message.type = "auth" /\ message.token # "")
    /\ last' = [op |-> "wsMessage", ws |-> ws, message |-> message]
    /\ UNCHANGED <<cfgVars, userVars, postVars, likeVars, chatVars, wsVars, webhookLog>>

InitWsAuth ==
    /\ adminApp \in BOOLEAN
    /\ nodeEnv = "production"
    /\ EmptyTables
    /\ users = SeededUsers

NextWsAuth ==
    \/ Connect
    \/ \E ws \in Conns, message \in WsMessages : WsMessage(ws, message)
    \/ \E ws \in Conns, message \in WsMessages :
          message.type = "auth" /\ AuthMessage(ws, message.token, message.userId)
    \/ \E p \in pendingAuth : AuthResolve(p)
    \/ \E ws \in Conns : BeginClose(ws)
    \/ \E ws \in Conns : Close(ws)

SpecWsAuth == InitWsAuth /\ [][NextWsAuth]_vars

\* The identity the registry holds for a socket, "none" for a socket not in it.
IdentityOf(reg, ws) ==
    IF \E i \in 1 .. Len(reg) : reg[i].ws = ws
    THEN reg[CHOOSE i \in 1 .. Len(reg) : reg[i].ws = ws].userId
    ELSE "none"

\* The identity an auth frame stands for: the subject of a token that verifies,
\* or the claimed identity when there is no verifier; "" for any other frame.
\* needsToken: the fallback too requires a non-empty token field.
FrameIdentity(type, token, userId, needsToken) ==
    IF type # "auth" THEN ""
    ELSE IF adminApp
         THEN (IF token \in DOMAIN TokenSubject THEN TokenSubject[token] ELSE "")
         ELSE (IF needsToken /\ token = "" THEN "" ELSE userId)

\* The handling of a frame is over in this step: the frame that did not reach
\* verifyIdToken, or the one whose verification has just resolved.
HandledFrames ==
    {[ws |-> p.ws, type |-> "auth", token |-> p.token, userId |-> p.userId] :
        p \in pendingAuth \ pendingAuth'}
    \cup (IF last'.op = "wsMessage"
          THEN {[ws |-> last'.ws, type |-> last'.message.type,
                 token |-> last'.message.token, userId |-> last'.message.userId]}
          ELSE {})

\* C25 as stated: a frame sets its socket's identity to U and is acknowledged,
\* on that socket alone, iff it is an auth frame whose token verifies with
\* subject U, or there is no verifier and it claims identity U; every other
\* frame changes neither the registry nor any inbox.
C25_AckIffAuthenticates ==
    [][\A f \in HandledFrames :
          LET U == FrameIdentity(f.type, f.token, f.userId, FALSE)
          IN IF U # ""
             THEN /\ IdentityOf(clients', f.ws) = U
                  /\ inbox' = [inbox EXCEPT ![f.ws] = Append(@, AuthSuccess)]
             ELSE clients' = clients /\ inbox' = inbox]_vars

\* C25, amended: the frame must carry a non-empty token also when there is no
\* verifier, and the acknowledgement is written only to a socket that is still
\* open when the verification resolves; a socket that closed meanwhile gets the
\* identity, back in the registry, and no acknowledgement.
C25_AckIffAuthenticatesOpen ==
    [][\A f \in HandledFrames :
          LET U == FrameIdentity(f.type, f.token, f.userId, TRUE)
          IN IF U # ""
             THEN /\ IdentityOf(clients', f.ws) = U
                  /\ \A i \in 1 .. Len(clients') :
                        clients'[i].ws # f.ws => clients'[i] \in
                           {clients[j] : j \in 1 .. Len(clients)}
                  /\ inbox' = IF readyState[f.ws] = "OPEN"
                              THEN [inbox EXCEPT ![f.ws] = Append(@, AuthSuccess)]
                              ELSE inbox
             ELSE clients' = clients /\ inbox' = inbox]_vars

\* Without a verifier, a socket has just been given the identity it claimed and
\* its acknowledgement, while another socket is connected and got nothing.
C25_Witness ==
    /\ ~adminApp
    /\ last.op = "authResolve"
    /\ IdentityOf(clients, last.ws) = "a"
    /\ inbox[last.ws] = <<AuthSuccess>>
    /\ \E ws \in DOMAIN inbox : ws # last.ws /\ inbox[ws] = <<>> /\ IdentityOf(clients, ws) = ""

(***************************************************************************)
(* SpecCleanup: the chat-retention job with its timer.  The callback is    *)
(* split at `await storage.clearChatMessages()`: between the firing of the *)
(* timer and scheduleNext() other handlers run.                            *)
(***************************************************************************)
\* The timer armed by scheduleNext's setTimeout.
CleanupTimer == [op |-> "chatCleanup", id |-> 0, actor |-> "", answer |-> "timer"]

\* The timer's callback, suspended at its await.
CleanupCallback == [op |-> "chatCleanup", id |-> 0, actor |-> "", answer |-> "running"]

\* The timer fires: its callback starts and calls storage.clearChatMessages.
CleanupTimerFires ==
    /\ BagIn(CleanupTimer, pending)
    /\ pending' = (pending (-) SetToBag({CleanupTimer})) (+) SetToBag({CleanupCallback})
    /\ last' = [op |-> "cleanupFires"]
    /\ UNCHANGED <<cfgVars, userVars, postVars, likes, toggleParity, chatVars, wsVars,
                   webhookLog>>

\* A callback that re-arms the timer only after a purge that succeeded.
CleanupSettles_HaltOnFailure(threw) ==
    /\ BagIn(CleanupCallback, pending)
    /\ chatMessages' = IF threw THEN chatMessages ELSE clearChatMessages(chatMessages)
    /\ pending' = IF threw THEN pending (-) SetToBag({CleanupCallback})
                  ELSE (pending (-) SetToBag({CleanupCallback})) (+) SetToBag({CleanupTimer})
    /\ last' = [op |-> "cleanupSettled", threw |-> threw]
    /\ UNCHANGED <<cfgVars, userVars, postVars, likes, toggleParity, nextChatId,
                   directMessages, wsVars, webhookLog>>

\* clearChatMessages resolved, or rejected into the catch; then scheduleNext().
CleanupSettles(threw) ==
    /\ BagIn(CleanupCallback, pending)
    /\ chatMessages' = IF threw THEN chatMessages ELSE clearChatMessages(chatMessages)
    /\ pending' = (pending (-) SetToBag({CleanupCallback})) (+) SetToBag({CleanupTimer})
    /\ last' = [op |-> "cleanupSettled", threw |-> threw]
    /\ UNCHANGED <<cfgVars, userVars, postVars, likes, toggleParity, nextChatId,
                   directMessages, wsVars, webhookLog>>

\* registerRoutes has called scheduleChatCleanup(): one timer is armed.
InitCleanup ==
    /\ adminApp = TRUE
    /\ nodeEnv = "production"
    /\ users = SeededUsers
    /\ settings = EmptyFn
    /\ posts = EmptyFn /\ nextPostId = 1
    /\ comments = EmptyFn /\ nextCommentId = 1
    /\ likes = EmptyFn /\ toggleParity = {}
    /\ pending = SetToBag({CleanupTimer})
    /\ chatMessages = EmptyFn /\ nextChatId = 1
    /\ directMessages = EmptyFn
    /\ clients = <<>> /\ readyState = EmptyFn /\ inbox = EmptyFn /\ pendingAuth = {}
    /\ webhookLog = {}
    /\ last = NoRequest

NextCleanup ==
    \/ CleanupTimerFires
    \/ \E threw \in BOOLEAN : CleanupSettles(threw)
    \/ Connect
    \/ \E cred \in Senders, content \in {"  ", " hello "} :
          nextChatId <= MaxRetained /\ SendChat(cred, content, 0)
    \/ \E cred \in Writers :
          Cardinality(DOMAIN directMessages) < MaxDms
             /\ SendDirectMessage(cred, "a", " hello ")

SpecCleanup == InitCleanup /\ [][NextCleanup]_vars

\* A due timer fires, and the store answers the purge or fails it.
SpecCleanupLive ==
    /\ SpecCleanup
    /\ WF_vars(CleanupTimerFires)
    /\ WF_vars(\E threw \in BOOLEAN : CleanupSettles(threw))

\* C26 as stated: at every moment exactly one cleanup timer is pending.
C26_ExactlyOneTimerPending ==
    CopiesIn(CleanupTimer, pending) = 1

\* C26, amended: at every moment either one cleanup timer is armed or one
\* callback is between its firing and its scheduleNext(), never both and never
\* two of either; the timer fires infinitely often, and a purge that failed is
\* followed by another firing.
C26_OneTimerOrCallback ==
    /\ [](CopiesIn(CleanupTimer, pending) + CopiesIn(CleanupCallback, pending) = 1)
    /\ []<>(last.op = "cleanupFires")
    /\ (last.op = "cleanupSettled" /\ last.threw) ~> (last.op = "cleanupFires")

\* A purge has just failed, leaving a stored message, and the timer is armed
\* again.
C26_Witness ==
    /\ last.op = "cleanupSettled" /\ last.threw
    /\ DOMAIN chatMessages # {}
    /\ CopiesIn(CleanupTimer, pending) = 1

\* C27: hasAdminAccess never goes back to false: a user whose hasAdminAccess is
\* true before a request (identity sync, set-password, unlock with any password,
\* role grant or revoke, webhook configuration) is stored with it true after.
C27_AdminAccessMonotone ==
    [][\A u \in DOMAIN users :
          users[u].hasAdminAccess => (u \in DOMAIN users' /\ users'[u].hasAdminAccess)]_vars

\* Member b, who unlocked with the old password, has just been refused that
\* password after the owner changed it, and still holds admin access.
C27_Witness ==
    /\ last.op = "unlock" /\ last.actor = "b" /\ last.password = "brotherhood"
    /\ last.status = 401
    /\ ~bcryptCompare("brotherhood", getSetting(settings, "admin_password"))
    /\ users["b"].hasAdminAccess

(***************************************************************************)
(* SpecOrder: send-chat requests in flight together, the chat webhook      *)
(* configured, each split at `await sendDiscordWebhook`.                   *)
(***************************************************************************)
NextOrder ==
    \/ \E cred \in OwnerCallers : SetWebhooks(cred, "", "", "https://discord.test/hook")
    \/ Connect
    \/ \E cred \in Writers :
          nextChatId <= MaxRetained /\ SendChatStart(cred, " hello ", FALSE, 0)
    \/ \E call \in BagToSet(pending), answer \in WebhookAnswers : WebhookAnswer(call, answer)
    \/ \E call \in BagToSet(pending) : SendChatFinish(call, 0)

SpecOrder == InitSeeded /\ [][NextOrder]_vars

\* C28: every socket is written the chat_message events in the order in which
\* their messages were committed (the order of their ids), whatever the
\* interleaving of the send-chat handlers.
C28_BroadcastInCommitOrder ==
    \A ws \in DOMAIN inbox :
       \A i, j \in 1 .. Len(inbox[ws]) :
          (i < j /\ inbox[ws][i].type = "chat_message" /\ inbox[ws][j].type = "chat_message")
             => inbox[ws][i].id < inbox[ws][j].id

\* C29: whenever POST /api/admin/unlock answers 200, the actor has a stored
\* user record and its hasAdminAccess is true after the request.
C29_UnlockSuccessStored ==
    [][(last'.op = "unlock" /\ last'.status = 200)
          => (/\ last'.actor \in DOMAIN users'
              /\ users'[last'.actor].hasAdminAccess)]_vars

(***************************************************************************)
(* SpecWebhooks: webhook configuration requests with every mix of empty    *)
(* and non-empty fields, next to the admin password.                       *)
(***************************************************************************)
\* The values of a webhook field of the request body; "" is empty or omitted.
WebhookFields == {"", "https://discord.test/hook", "https://discord.test/other"}

NextWebhooks ==
    \/ \E cred \in OwnerCallers, password \in {"abcd", "brotherhood"} :
          SetPassword(cred, password)
    \/ \E cred \in Callers, feedWebhook \in WebhookFields,
          announcementsWebhook \in WebhookFields, chatWebhook \in WebhookFields :
          SetWebhooks(cred, feedWebhook, announcementsWebhook, chatWebhook)
    \/ \E cred \in Members : GetWebhooks(cred)

SpecWebhooks == InitSeeded /\ [][NextWebhooks]_vars

\* The three webhook settings, each with the request field that sets it.
WebhookKeys ==
    {<<"discord_feed_webhook", "feedWebhook">>,
     <<"discord_announcements_webhook", "announcementsWebhook">>,
     <<"discord_chat_webhook", "chatWebhook">>}

\* C30: an authorized POST /api/admin/webhooks sets each webhook setting whose
\* field is non-empty to that field, leaves each one whose field is empty or
\* omitted as it was, and changes no other setting, the admin password
\* included; no request returns a configured webhook to the unconfigured state.
C30_WebhooksSetOnlyNonEmpty ==
    [][/\ (last'.op = "setWebhooks" /\ last'.status = 200) =>
             /\ \A k \in WebhookKeys :
                   IF last'[k[2]] # ""
                   THEN k[1] \in DOMAIN settings' /\ settings'[k[1]] = last'[k[2]]
                   ELSE /\ k[1] \in DOMAIN settings' <=> k[1] \in DOMAIN settings
                        /\ k[1] \in DOMAIN settings => settings'[k[1]] = settings[k[1]]
             /\ DOMAIN settings' \subseteq DOMAIN settings \cup {k[1] : k \in WebhookKeys}
             /\ \A key \in DOMAIN settings \ {k[1] : k \in WebhookKeys} :
                   key \in DOMAIN settings' /\ settings'[key] = settings[key]
       /\ \A k \in WebhookKeys :
             getWebhook(settings, k[1]) # "" => getWebhook(settings', k[1]) # ""]_vars

\* The owner has just replaced the chat webhook with a request whose feed field
\* was empty: the feed webhook configured earlier and the admin password stay.
C30_Witness ==
    /\ last.op = "setWebhooks" /\ last.status = 200
    /\ last.feedWebhook = "" /\ last.announcementsWebhook = ""
    /\ last.chatWebhook = "https://discord.test/other"
    /\ getWebhook(settings, "discord_feed_webhook") = "https://discord.test/hook"
    /\ getWebhook(settings, "discord_chat_webhook") = "https://discord.test/other"
    /\ "admin_password" \in DOMAIN settings

=============================================================================
